---- MODULE Spec2Model ----
(***************************************************************************)
(* Verification model of the resume / job-description matching core:       *)
(*   backend/scorer.py              calculate_keyword_match_score,         *)
(*                                  calculate_overall_score                *)
(*   backend/feedback_generator.py  generate_feedback                      *)
(*   backend/semantic_analyzer.py   calculate_semantic_similarity          *)
(*   backend/text_processor.py      preprocess_text and its stages         *)
(*   backend/keyword_extractor.py   extract_keywords_tfidf                 *)
(*   backend/main.py                analyze_resume, analyze_resume_files   *)
(*   backend/resume_parser.py       extract_text_from_file                 *)
(*   frontend/app.py                the two analyze buttons                *)
(*                                                                         *)
(* Python floats are binary floating-point numbers.  They are modelled as  *)
(* records [m, e] standing for m * 2^e with a normalised significand of    *)
(* Precision bits and round-to-nearest-even after every operation, so that *)
(* rounding is part of what is checked.                                    *)
(***************************************************************************)
EXTENDS Integers, Sequences, FiniteSets, TLC

VARIABLES
    ks_call,    \* arguments of the calculate_keyword_match_score call
    ks_ret,     \* what that call returned
    os_call,    \* arguments of the calculate_overall_score call
    os_ret,     \* what that call returned or raised
    fb_call,    \* arguments of the generate_feedback call
    fb_ret,     \* the dict that call returned
    sentence_model, \* semantic_analyzer.sentence_model, set at import
    ss_call,    \* arguments of the calculate_semantic_similarity call
    ss_ret,     \* what that call returned
    ke_call,    \* arguments of the extract_keywords_tfidf call
    ke_ret,     \* what that call returned
    nlp,        \* text_processor.nlp, set at import
    tp_call,    \* function and argument of the text_processor call
    tp_ret,     \* what that call returned
    ar_call,    \* the request given to analyze_resume
    ar_ret,     \* the response it returned or the HTTPException it raised
    af_call,    \* the two uploads given to analyze_resume_files
    af_ret,     \* the response it returned or the HTTPException it raised
    requests,   \* the analyze_resume calls in flight: texts, position, locals
    environment, \* what the process fixes for all requests: encoder, set order
    session_state, \* st.session_state of the front end
    widgets     \* the text areas and file uploaders of the page

scorerVars == <<ks_call, ks_ret, os_call, os_ret>>
feedbackVars == <<fb_call, fb_ret>>
semanticVars == <<sentence_model, ss_call, ss_ret>>
extractorVars == <<ke_call, ke_ret>>
processorVars == <<nlp, tp_call, tp_ret>>
apiVars == <<ar_call, ar_ret>>
filesVars == <<af_call, af_ret>>
concurrentVars == <<requests, environment>>
frontendVars == <<session_state, widgets>>

vars == <<scorerVars, feedbackVars, semanticVars, extractorVars, processorVars, apiVars, filesVars, concurrentVars, frontendVars>>

(***************************************************************************)
(* Bounds of the model.                                                    *)
(***************************************************************************)
MaxLen == 2         \* longest keyword list drawn as an input
MaxTopN == 2        \* largest top_n_missing_keywords drawn as an input
Precision == 13     \* significand bits of the modelled float

\* A call that has not been made / has not returned.
Idle == [fn |-> "idle"]
Pending == [kind |-> "pending"]

\* A module global that the component under analysis does not read.
Unused == "unused"

ScorerIdle ==
    /\ ks_call = Idle /\ ks_ret = Pending
    /\ os_call = Idle /\ os_ret = Pending

FeedbackIdle == fb_call = Idle /\ fb_ret = Pending

SemanticIdle == sentence_model = Unused /\ ss_call = Idle /\ ss_ret = Pending

ExtractorIdle == ke_call = Idle /\ ke_ret = Pending

ProcessorIdle == nlp = Unused /\ tp_call = Idle /\ tp_ret = Pending

ApiIdle == ar_call = Idle /\ ar_ret = Pending

FilesIdle == af_call = Idle /\ af_ret = Pending

ConcurrentIdle == requests = <<>> /\ environment = Idle

FrontendIdle == session_state = Idle /\ widgets = Idle

\* The components added to the API are not in use.
OthersIdle == FilesIdle /\ ConcurrentIdle /\ FrontendIdle

Min(a, b) == IF a <= b THEN a ELSE b
Max(a, b) == IF a >= b THEN a ELSE b

(***************************************************************************)
(* Floating point.                                                         *)
(***************************************************************************)
Zero == [m |-> 0, e |-> 0]

\* n / d rounded to the nearest integer, ties to even (n >= 0, d > 0).
RoundHalfEven(n, d) ==
    LET q == n \div d
        r == n % d
    IN  IF 2 * r > d \/ (2 * r = d /\ q % 2 = 1) THEN q + 1 ELSE q

RECURSIVE RoundPos(_, _, _)
\* The float nearest to (n / d) * 2^e, for n > 0, d > 0: the quotient is
\* scaled by powers of two (four binary places at a time while it is far off)
\* until it has Precision bits before the binary point, then rounded.
RoundPos(n, d, e) ==
    LET q == n \div d
    IN  IF q >= 2^(Precision + 4) THEN RoundPos(n, 16 * d, e + 4)
        ELSE IF q >= 2^Precision THEN RoundPos(n, 2 * d, e + 1)
        ELSE IF q < 2^(Precision - 5) THEN RoundPos(16 * n, d, e - 4)
        ELSE IF q < 2^(Precision - 1) THEN RoundPos(2 * n, d, e - 1)
        ELSE LET m == RoundHalfEven(n, d)
             IN  IF m = 2^Precision
                 THEN [m |-> 2^(Precision - 1), e |-> e + 1]
                 ELSE [m |-> m, e |-> e]

FNeg(a) == [m |-> 0 - a.m, e |-> a.e]

\* The float nearest to (n / d) * 2^e, for d > 0 and any n.
Fl(n, d, e) ==
    IF n = 0 THEN Zero
    ELSE IF n < 0 THEN FNeg(RoundPos(0 - n, d, e))
    ELSE RoundPos(n, d, e)

\* A decimal literal n/d of the source text, and an int converted to float.
Lit(n, d) == Fl(n, d, 0)
IntToFloat(i) == Fl(i, 1, 0)

One == IntToFloat(1)

\* The numeric literals of the source text.
Lit_0_5 == Lit(5, 10)
Lit_0_60 == Lit(6, 10)
Lit_0_75 == Lit(75, 100)
Lit_50 == IntToFloat(50)
Lit_60 == IntToFloat(60)
Lit_70 == IntToFloat(70)
Lit_75 == IntToFloat(75)
Lit_100 == IntToFloat(100)

FAdd(a, b) ==
    IF a.m = 0 THEN b
    ELSE IF b.m = 0 THEN a
    ELSE LET e == Min(a.e, b.e)
         IN  Fl(a.m * 2^(a.e - e) + b.m * 2^(b.e - e), 1, e)

FMul(a, b) == Fl(a.m * b.m, 1, a.e + b.e)

\* a / b for b # 0.
FDiv(a, b) ==
    IF b.m > 0 THEN Fl(a.m, b.m, a.e - b.e)
    ELSE Fl(0 - a.m, 0 - b.m, a.e - b.e)

\* int / int true division.
IntTrueDiv(i, u) == Fl(i, u, 0)

FLt(a, b) ==
    CASE a.m < 0 /\ b.m >= 0 -> TRUE
      [] a.m >= 0 /\ b.m < 0 -> FALSE
      [] a.m = 0 /\ b.m >= 0 -> b.m > 0
      [] a.m > 0 /\ b.m = 0 -> FALSE
      [] a.m > 0 /\ b.m > 0 -> a.e < b.e \/ (a.e = b.e /\ a.m < b.m)
      [] a.m < 0 /\ b.m < 0 -> a.e > b.e \/ (a.e = b.e /\ a.m < b.m)

FLe(a, b) == a = b \/ FLt(a, b)
FGe(a, b) == FLe(b, a)
FGt(a, b) == FLt(b, a)

\* Python's builtin min(a, b) and max(a, b) on two floats.
PyMin(a, b) == IF FLt(b, a) THEN b ELSE a
PyMax(a, b) == IF FGt(b, a) THEN b ELSE a

\* format(x, '.0f') as the integer it prints (x >= 0): nearest, ties to even.
Format0f(x) ==
    IF x.e >= 0 THEN x.m * 2^x.e ELSE RoundHalfEven(x.m, 2^(0 - x.e))

(***************************************************************************)
(* Keywords are strings, modelled as tuples of characters.                 *)
(***************************************************************************)
LowerChar(c) ==
    CASE c = "A" -> "a"
      [] c = "B" -> "b"
      [] c = "F" -> "f"
      [] c = "P" -> "p"
      [] c = "D" -> "d"
      [] c = "I" -> "i"
      [] OTHER -> c

\* str.lower()
Lower(k) == [i \in DOMAIN k |-> LowerChar(k[i])]

Keywords == { <<"a", "i">>, <<"A", "I">>, <<"d", "b">>, <<"g", "o">> }

BoundedSeq(S, n) == UNION { [1..k -> S] : k \in 0..n }

KeywordLists == BoundedSeq(Keywords, MaxLen)

\* set(list)
ToSet(list) == { list[i] : i \in DOMAIN list }

(***************************************************************************)
(* scorer.calculate_keyword_match_score                                    *)
(***************************************************************************)
\* Variant: keywords compared case-insensitively.
calculate_keyword_match_score_lowercased(resume_keywords, jd_keywords) ==
    IF resume_keywords = <<>> \/ jd_keywords = <<>> THEN Zero
    ELSE LET set_resume == { Lower(k) : k \in ToSet(resume_keywords) }
             set_jd == { Lower(k) : k \in ToSet(jd_keywords) }
         IN  IntTrueDiv(Cardinality(set_resume \cap set_jd),
                        Cardinality(set_resume \cup set_jd))

\* Variant: the overlap is divided by the size of the resume set alone.
calculate_keyword_match_score_containment(resume_keywords, jd_keywords) ==
    IF resume_keywords = <<>> \/ jd_keywords = <<>> THEN Zero
    ELSE LET set_resume == ToSet(resume_keywords)
             set_jd == ToSet(jd_keywords)
         IN  IntTrueDiv(Cardinality(set_resume \cap set_jd),
                        Cardinality(set_resume))

calculate_keyword_match_score(resume_keywords, jd_keywords) ==
    IF resume_keywords = <<>> \/ jd_keywords = <<>> THEN Zero
    ELSE LET set_resume == ToSet(resume_keywords)
             set_jd == ToSet(jd_keywords)
             intersection == Cardinality(set_resume \cap set_jd)
             union == Cardinality(set_resume \cup set_jd)
         IN  IF union = 0 THEN Zero
             ELSE IntTrueDiv(intersection, union)

InitKeywordMatch ==
    /\ OthersIdle
    /\ ks_call \in [fn : {"calculate_keyword_match_score"},
                    resume_keywords : KeywordLists,
                    jd_keywords : KeywordLists]
    /\ ks_ret = Pending
    /\ os_call = Idle /\ os_ret = Pending
    /\ FeedbackIdle /\ SemanticIdle /\ ExtractorIdle /\ ProcessorIdle /\ ApiIdle

CalculateKeywordMatchScore ==
    /\ ks_call # Idle
    /\ ks_ret = Pending
    /\ ks_ret' = [kind |-> "return",
                  value |-> calculate_keyword_match_score(
                                ks_call.resume_keywords, ks_call.jd_keywords)]
    /\ UNCHANGED <<ks_call, os_call, os_ret, feedbackVars, semanticVars, extractorVars, processorVars, apiVars, filesVars, concurrentVars, frontendVars>>

NextKeywordMatch == CalculateKeywordMatchScore

SpecKeywordMatch == InitKeywordMatch /\ [][NextKeywordMatch]_vars

KsReturned == ks_ret # Pending

\* C8: calculate_keyword_match_score(A, B) is |set(A) & set(B)| divided by
\* |set(A) | set(B)| for non-empty lists A and B (duplicates ignored, strings
\* compared case-sensitively), is 0.0 when either list is empty, and always
\* lies in [0, 1].
C8_JaccardScore ==
    KsReturned =>
        LET A == { ks_call.resume_keywords[i] :
                       i \in 1..Len(ks_call.resume_keywords) }
            B == { ks_call.jd_keywords[i] : i \in 1..Len(ks_call.jd_keywords) }
        IN  /\ (Len(ks_call.resume_keywords) > 0 /\ Len(ks_call.jd_keywords) > 0)
                => ks_ret.value =
                       Fl(Cardinality(A \cap B), Cardinality(A \cup B), 0)
            /\ (Len(ks_call.resume_keywords) = 0 \/ Len(ks_call.jd_keywords) = 0)
                => ks_ret.value = Zero
            /\ FLe(Zero, ks_ret.value)
            /\ FLe(ks_ret.value, One)

\* A call where a keyword of one list differs from a keyword of the other by
\* case only and one keyword is shared: ["ai", "db"] against ["AI", "db"].
C8_Witness ==
    /\ KsReturned
    /\ ks_call.resume_keywords = << <<"a", "i">>, <<"d", "b">> >>
    /\ ks_call.jd_keywords = << <<"A", "I">>, <<"d", "b">> >>
    /\ ks_ret.value = Fl(1, 3, 0)

\* C9: calculate_keyword_match_score(A, B) = calculate_keyword_match_score(B, A)
\* for all lists, and calculate_keyword_match_score(A, A) = 1.0 for non-empty A.
C9_SymmetricAndReflexive ==
    KsReturned =>
        /\ ks_ret.value = calculate_keyword_match_score(
                              ks_call.jd_keywords, ks_call.resume_keywords)
        /\ (ks_call.resume_keywords = ks_call.jd_keywords
             /\ ks_call.resume_keywords # <<>>) => ks_ret.value = One

\* A call whose two lists have different numbers of distinct keywords and
\* overlap: ["ai"] against ["ai", "db"].
C9_Witness ==
    /\ KsReturned
    /\ ks_call.resume_keywords = << <<"a", "i">> >>
    /\ ks_call.jd_keywords = << <<"a", "i">>, <<"d", "b">> >>
    /\ ks_ret.value = Fl(1, 2, 0)

(***************************************************************************)
(* scorer.calculate_overall_score                                          *)
(***************************************************************************)
Raise(exc) == [kind |-> "raise", exc |-> exc]
Return(v) == [kind |-> "return", value |-> v]

\* Variant: only the keyword weight is validated.
weights_in_range_keyword_only(keyword_weight, semantic_weight) ==
    FLe(Zero, keyword_weight) /\ FLe(keyword_weight, One)

\* 0 <= keyword_weight <= 1 and 0 <= semantic_weight <= 1
weights_in_range(keyword_weight, semantic_weight) ==
    /\ FLe(Zero, keyword_weight) /\ FLe(keyword_weight, One)
    /\ FLe(Zero, semantic_weight) /\ FLe(semantic_weight, One)

\* Variant: the weights are used as they were given.
normalized_weight_as_given(weight, total_weight) == weight

\* if total_weight != 1.0: weight /= total_weight
normalized_weight(weight, total_weight) ==
    IF total_weight # One THEN FDiv(weight, total_weight) ELSE weight

\* Variant: the clamped score is turned into a distance.
clamped_semantic_score_as_distance(semantic_similarity_score) ==
    FAdd(One, FNeg(PyMax(Zero, PyMin(One, semantic_similarity_score))))

\* max(0.0, min(1.0, semantic_similarity_score))
clamped_semantic_score(semantic_similarity_score) ==
    PyMax(Zero, PyMin(One, semantic_similarity_score))

calculate_overall_score(resume_keywords, jd_keywords, semantic_similarity_score, keyword_weight, semantic_weight) ==
    IF ~ weights_in_range(keyword_weight, semantic_weight)
    THEN Raise("ValueError")
    ELSE IF ~ FGt(FAdd(keyword_weight, semantic_weight), Zero)
    THEN Return(Zero)
    ELSE
      LET total_weight == FAdd(keyword_weight, semantic_weight)
          kw == normalized_weight(keyword_weight, total_weight)
          sw == normalized_weight(semantic_weight, total_weight)
          keyword_match_score ==
              calculate_keyword_match_score(resume_keywords, jd_keywords)
          clamped == clamped_semantic_score(semantic_similarity_score)
          combined_score_0_to_1 ==
              FAdd(FMul(keyword_match_score, kw), FMul(clamped, sw))
      IN  Return(FMul(combined_score_0_to_1, Lit_100))

\* Inputs of the calls that are drawn.
ScorerKeywords == { <<"a", "i">>, <<"d", "b">>, <<"g", "o">> }
\* Keyword lists without repeated keywords, as keyword extraction produces.
ScorerKeywordLists ==
    { l \in BoundedSeq(ScorerKeywords, MaxLen) :
          \A i, j \in DOMAIN l : i # j => l[i] # l[j] }
Weights == { Lit(-1, 10), Zero, Lit(5, 10), Lit(59, 100), Lit(8, 10), One,
             Lit(12, 10) }
SemanticInputs == { Lit(-5, 10), Zero, Lit(3, 10), Lit(85, 100), One,
                    Lit(15, 10) }

\* The caller holds the two keyword lists; the remaining arguments are chosen
\* at the call.
InitOverall ==
    /\ OthersIdle
    /\ os_call \in [fn : {"caller"}, resume_keywords : ScorerKeywordLists,
                    jd_keywords : ScorerKeywordLists]
    /\ os_ret = Pending
    /\ ks_call = Idle /\ ks_ret = Pending
    /\ FeedbackIdle /\ SemanticIdle /\ ExtractorIdle /\ ProcessorIdle /\ ApiIdle

CalculateOverallScore ==
    /\ os_call # Idle
    /\ os_call.fn = "caller"
    /\ \E s \in SemanticInputs, kw \in Weights, sw \in Weights :
          /\ os_call' = [fn |-> "calculate_overall_score",
                         resume_keywords |-> os_call.resume_keywords,
                         jd_keywords |-> os_call.jd_keywords,
                         semantic_similarity_score |-> s,
                         keyword_weight |-> kw, semantic_weight |-> sw]
          /\ os_ret' = calculate_overall_score(
                           os_call.resume_keywords, os_call.jd_keywords,
                           s, kw, sw)
    /\ UNCHANGED <<ks_call, ks_ret, feedbackVars, semanticVars, extractorVars, processorVars, apiVars, filesVars, concurrentVars, frontendVars>>

NextOverall == CalculateOverallScore

SpecOverall == InitOverall /\ [][NextOverall]_vars

OsReturned == os_ret # Pending /\ os_ret.kind = "return"

\* The weights are valid and do not sum to zero.
OsValidWeights ==
    /\ os_call # Idle
    /\ os_call.fn = "calculate_overall_score"
    /\ FLe(Zero, os_call.keyword_weight) /\ FLe(os_call.keyword_weight, One)
    /\ FLe(Zero, os_call.semantic_weight) /\ FLe(os_call.semantic_weight, One)
    /\ FGt(FAdd(os_call.keyword_weight, os_call.semantic_weight), Zero)

\* What the contract of calculate_overall_score names: the Jaccard score of
\* the two lists, the semantic score clamped into [0, 1], and the weights
\* divided by their sum.
OsKeywordScore ==
    LET A == { os_call.resume_keywords[i] : i \in 1..Len(os_call.resume_keywords) }
        B == { os_call.jd_keywords[i] : i \in 1..Len(os_call.jd_keywords) }
    IN  IF A = {} \/ B = {} THEN Zero
        ELSE Fl(Cardinality(A \cap B), Cardinality(A \cup B), 0)

OsClamp ==
    IF FGt(os_call.semantic_similarity_score, One) THEN One
    ELSE IF FLt(os_call.semantic_similarity_score, Zero) THEN Zero
    ELSE os_call.semantic_similarity_score

OsFormula ==
    LET sum == FAdd(os_call.keyword_weight, os_call.semantic_weight)
        wK == FDiv(os_call.keyword_weight, sum)
        wS == FDiv(os_call.semantic_weight, sum)
    IN  os_ret.value =
            FMul(FAdd(FMul(OsKeywordScore, wK), FMul(OsClamp, wS)),
                 Lit_100)

OsClampEquivalence ==
    /\ FGt(os_call.semantic_similarity_score, One) =>
           os_ret = calculate_overall_score(
                        os_call.resume_keywords, os_call.jd_keywords, One,
                        os_call.keyword_weight, os_call.semantic_weight)
    /\ FLt(os_call.semantic_similarity_score, Zero) =>
           os_ret = calculate_overall_score(
                        os_call.resume_keywords, os_call.jd_keywords, Zero,
                        os_call.keyword_weight, os_call.semantic_weight)

OsInRange ==
    FLe(Zero, os_ret.value) /\ FLe(os_ret.value, Lit_100)

\* C10: for weights in [0, 1] with positive sum, calculate_overall_score
\* returns (keywordScore * wK + clamp(semantic, 0, 1) * wS) * 100 with the
\* weights divided by their sum and keywordScore the Jaccard score of the
\* lists; a semantic input above 1 or below 0 gives the result of 1 or 0; and
\* the result always lies in [0, 100].
C10_OverallScoreContract ==
    OsValidWeights =>
        /\ OsReturned
        /\ OsFormula
        /\ OsClampEquivalence
        /\ OsInRange

\* The parts of C10 other than the range.
OsFormulaAndClamp ==
    OsValidWeights => (OsReturned /\ OsFormula /\ OsClampEquivalence)

\* The call that was made, with other weights / another semantic score /
\* other keyword lists.
OsCalled == os_call # Idle /\ os_call.fn = "calculate_overall_score"

OsWithWeights(kw, sw) ==
    calculate_overall_score(os_call.resume_keywords, os_call.jd_keywords, os_call.semantic_similarity_score, kw, sw)

OsWithSemantic(s) ==
    calculate_overall_score(os_call.resume_keywords, os_call.jd_keywords, s, os_call.keyword_weight, os_call.semantic_weight)

OsWithKeywords(rk, jk) ==
    calculate_overall_score(rk, jk, os_call.semantic_similarity_score, os_call.keyword_weight, os_call.semantic_weight)

\* The weights of the call divided by their sum, as a caller computes them.
OsPreNormalizedKw ==
    FDiv(os_call.keyword_weight, FAdd(os_call.keyword_weight, os_call.semantic_weight))

OsPreNormalizedSw ==
    FDiv(os_call.semantic_weight, FAdd(os_call.keyword_weight, os_call.semantic_weight))

Lit_0_8 == Lit(8, 10)
Lit_0_85 == Lit(85, 100)
Lit_71 == IntToFloat(71)
Lit_72 == IntToFloat(72)

\* C11 as stated: for any keyword lists, any semantic score and any weights
\* (kw, sw) in [0, 1] with kw + sw > 0, calculate_overall_score called with
\* (kw, sw) returns the same score as called with the pre-normalized weights
\* (kw / (kw + sw), sw / (kw + sw)).
C11_PreNormalizedWeightsOriginal ==
    OsValidWeights => os_ret = OsWithWeights(OsPreNormalizedKw, OsPreNormalizedSw)

\* C11: for weights (kw, sw) in [0, 1] with kw + sw > 0 whose pre-normalized
\* values kw / (kw + sw) and sw / (kw + sw) add up to exactly 1.0,
\* calculate_overall_score called with (kw, sw) returns the same score as
\* called with the pre-normalized weights; (0.5, 0.8) is such a pair.
C11_PreNormalizedWeights ==
    /\ (OsValidWeights /\ FAdd(OsPreNormalizedKw, OsPreNormalizedSw) = One)
          => os_ret = OsWithWeights(OsPreNormalizedKw, OsPreNormalizedSw)
    /\ (OsCalled /\ os_call.keyword_weight = Lit_0_5
                 /\ os_call.semantic_weight = Lit_0_8)
          => /\ FAdd(OsPreNormalizedKw, OsPreNormalizedSw) = One
             /\ os_ret = OsWithWeights(OsPreNormalizedKw, OsPreNormalizedSw)

\* The call calculate_overall_score(["ai", "db"], ["ai"], 0.85, 0.5, 0.8),
\* whose weights sum to 1.3, returned a score between 71 and 72.
C11_Witness ==
    /\ OsCalled /\ OsReturned
    /\ os_call.resume_keywords = << <<"a", "i">>, <<"d", "b">> >>
    /\ os_call.jd_keywords = << <<"a", "i">> >>
    /\ os_call.semantic_similarity_score = Lit_0_85
    /\ os_call.keyword_weight = Lit_0_5
    /\ os_call.semantic_weight = Lit_0_8
    /\ FLt(Lit_71, os_ret.value) /\ FLt(os_ret.value, Lit_72)

\* Keyword lists with the Jaccard scores 0, 1/3, 1/2 and 1.
ReferenceKeywordLists ==
    { << << <<"a", "i">> >>, << <<"d", "b">> >> >>,
      << << <<"a", "i">>, <<"d", "b">> >>, << <<"a", "i">>, <<"g", "o">> >> >>,
      << << <<"a", "i">> >>, << <<"a", "i">>, <<"d", "b">> >> >>,
      << << <<"a", "i">> >>, << <<"a", "i">> >> >> }

\* C12: with the keyword lists and the weights fixed, the score of
\* calculate_overall_score does not decrease when the semantic similarity
\* score increases; with the semantic score and the weights fixed, it does not
\* decrease when the keyword match score of the lists increases.
C12_Monotone ==
    (OsCalled /\ OsReturned) =>
        /\ \A s \in SemanticInputs :
              FLe(os_call.semantic_similarity_score, s)
                  => FLe(os_ret.value, OsWithSemantic(s).value)
        /\ \A p \in ReferenceKeywordLists :
              FLe(OsKeywordScore, calculate_keyword_match_score(p[1], p[2]))
                  => FLe(os_ret.value, OsWithKeywords(p[1], p[2]).value)

\* A call with positive weights, a semantic score of 0.3 and keyword lists of
\* Jaccard score 1/2 returned a score strictly below the score of the same
\* call at semantic score 0.85 and strictly below the score of the same call
\* on identical lists.
C12_Witness ==
    /\ OsCalled /\ OsReturned
    /\ os_call.keyword_weight = Lit_0_5
    /\ os_call.semantic_weight = Lit_0_8
    /\ os_call.semantic_similarity_score = Lit(3, 10)
    /\ OsKeywordScore = Lit_0_5
    /\ FLt(os_ret.value, OsWithSemantic(Lit_0_85).value)
    /\ FLt(os_ret.value, OsWithKeywords(<< <<"a", "i">> >>, << <<"a", "i">> >>).value)

\* A weight lies outside [0, 1].
OsWeightOutOfRange ==
    \/ FLt(os_call.keyword_weight, Zero) \/ FGt(os_call.keyword_weight, One)
    \/ FLt(os_call.semantic_weight, Zero) \/ FGt(os_call.semantic_weight, One)

\* The weights sum to 0.
OsWeightsSumToZero ==
    FAdd(os_call.keyword_weight, os_call.semantic_weight) = Zero

\* C13 as stated: an invalid weight configuration (a weight outside [0, 1],
\* or weights summing to 0) is reported as an explicit failure and never as a
\* numeric score.
C13_InvalidWeightsFailOriginal ==
    (OsCalled /\ (OsWeightOutOfRange \/ OsWeightsSumToZero))
        => (os_ret # Pending /\ os_ret.kind = "raise")

\* C13: a weight outside [0, 1] is reported as an explicit failure
\* (ValueError) and never as a numeric score; weights in [0, 1] that sum to 0
\* are not a failure: the call returns the score 0.0.
C13_InvalidWeightsFail ==
    OsCalled =>
        /\ OsWeightOutOfRange => os_ret = Raise("ValueError")
        /\ (~ OsWeightOutOfRange /\ OsWeightsSumToZero) => os_ret = Return(Zero)

\* A call with keyword weight 0.5 and semantic weight 1.2 raised ValueError.
C13_Witness ==
    /\ OsCalled
    /\ os_call.keyword_weight = Lit_0_5
    /\ os_call.semantic_weight = Lit(12, 10)
    /\ os_ret = Raise("ValueError")

(***************************************************************************)
(* feedback_generator.generate_feedback                                    *)
(*                                                                         *)
(* A message is a record: id names the text, terms are the keywords the    *)
(* text lists, num is the number the text prints (0 when it prints none).  *)
(***************************************************************************)
Categories == { "overall_summary", "missing_keywords_suggestions",
                "strengths", "areas_for_improvement" }

Msg(id, terms, num) == [id |-> id, terms |-> terms, num |-> num]

\* list[:k]
Slice(list, k) ==
    IF k >= 0 THEN SubSeq(list, 1, Min(k, Len(list)))
    ELSE SubSeq(list, 1, Max(Len(list) + k, 0))

\* feedback[key].append(msg)
AppendTo(feedback, key, msg) ==
    [feedback EXCEPT ![key] = Append(@, msg)]

\* feedback.pop(key)
Pop(feedback, key) ==
    [k \in (DOMAIN feedback) \ {key} |-> feedback[k]]

\* set(k.lower() for k in keywords)
set_lower(keywords) == { Lower(keywords[i]) : i \in DOMAIN keywords }

\* Variant: keywords compared as stored.
missing_keyword_set_as_stored(resume_keywords, jd_keywords) ==
    ToSet(jd_keywords) \ ToSet(resume_keywords)

\* set_jd_keywords - set_resume_keywords
missing_keyword_set(resume_keywords, jd_keywords) ==
    set_lower(jd_keywords) \ set_lower(resume_keywords)

\* Variant: keywords compared as stored.
common_keyword_set_as_stored(resume_keywords, jd_keywords) ==
    ToSet(resume_keywords) \cap ToSet(jd_keywords)

\* set_resume_keywords.intersection(set_jd_keywords)
common_keyword_set(resume_keywords, jd_keywords) ==
    set_lower(resume_keywords) \cap set_lower(jd_keywords)

\* list(a_set): the elements in the iteration order of the set, which is any
\* order.
ListsOf(S) ==
    { l \in [1..Cardinality(S) -> S] :
          \A i, j \in 1..Cardinality(S) : l[i] = l[j] => i = j }

\* 1. Identify missing keywords.
missing_keywords_step(feedback, missing_keywords, top_n) ==
    IF missing_keywords # <<>>
    THEN LET f == AppendTo(feedback, "missing_keywords_suggestions",
                           Msg("Consider incorporating relevant keywords",
                               Slice(missing_keywords, top_n), 0))
         IN  IF Len(missing_keywords) > top_n
             THEN AppendTo(f, "missing_keywords_suggestions",
                           Msg("There are N more keywords", <<>>,
                               Len(missing_keywords) - top_n))
             ELSE f
    ELSE feedback

\* Variant: the boundaries 75 and 50 belong to the lower band.
band_boundary_in_lower_band(overall_score) ==
    IF FGt(overall_score, Lit_75) THEN "high"
    ELSE IF FGt(overall_score, Lit_50) THEN "medium"
    ELSE "low"

\* The branch of the if / elif / else over overall_score.
band(overall_score) ==
    IF FGe(overall_score, Lit_75) THEN "high"
    ELSE IF FGe(overall_score, Lit_50) THEN "medium"
    ELSE "low"

summary_id(b) ==
    CASE b = "high" -> "Excellent match"
      [] b = "medium" -> "Good potential"
      [] b = "low" -> "Needs improvement"

NoNote == [category |-> "none", id |-> "none"]

\* Variant: the medium band takes the alignment strength from 0.50 on.
band_note_medium_from_half(b, semantic_similarity_score) ==
    CASE b = "high" ->
           IF FGe(semantic_similarity_score, Lit_0_75)
           THEN [category |-> "strengths", id |-> "strong semantic alignment"]
           ELSE IF FGe(semantic_similarity_score, Lit_0_60)
           THEN [category |-> "strengths", id |-> "Good semantic alignment"]
           ELSE NoNote
      [] b = "medium" ->
           IF FGe(semantic_similarity_score, Lit_0_5)
           THEN [category |-> "strengths", id |-> "generally well-aligned"]
           ELSE [category |-> "areas_for_improvement",
                 id |-> "consider tailoring your language"]
      [] b = "low" ->
           IF FLt(semantic_similarity_score, Lit_0_5)
           THEN [category |-> "areas_for_improvement",
                 id |-> "semantic similarity is currently low"]
           ELSE [category |-> "areas_for_improvement",
                 id |-> "highlights the most relevant skills"]

\* The message the branch adds besides the summary, and its category.
band_note(b, semantic_similarity_score) ==
    CASE b = "high" ->
           IF FGe(semantic_similarity_score, Lit_0_75)
           THEN [category |-> "strengths", id |-> "strong semantic alignment"]
           ELSE IF FGe(semantic_similarity_score, Lit_0_60)
           THEN [category |-> "strengths", id |-> "Good semantic alignment"]
           ELSE NoNote
      [] b = "medium" ->
           IF FGe(semantic_similarity_score, Lit_0_60)
           THEN [category |-> "strengths", id |-> "generally well-aligned"]
           ELSE [category |-> "areas_for_improvement",
                 id |-> "consider tailoring your language"]
      [] b = "low" ->
           IF FLt(semantic_similarity_score, Lit_0_5)
           THEN [category |-> "areas_for_improvement",
                 id |-> "semantic similarity is currently low"]
           ELSE [category |-> "areas_for_improvement",
                 id |-> "highlights the most relevant skills"]

\* 2. Generate overall summary based on scores.
overall_summary_step(feedback, semantic_similarity_score, overall_score) ==
    LET b == band(overall_score)
        f == AppendTo(feedback, "overall_summary",
                      Msg(summary_id(b), <<>>, Format0f(overall_score)))
        note == band_note(b, semantic_similarity_score)
    IN  IF note = NoNote THEN f
        ELSE AppendTo(f, note.category, Msg(note.id, <<>>, 0))

\* Variant: keyword coverage is praised only above 70.
keyword_coverage_applies_above_70(missing_keywords, overall_score) ==
    missing_keywords = <<>> /\ FGt(overall_score, Lit_70)

\* not missing_keywords and overall_score >= 70
keyword_coverage_applies(missing_keywords, overall_score) ==
    missing_keywords = <<>> /\ FGe(overall_score, Lit_70)

\* Variant: the generic strength is added from 70 on.
generic_strength_applies_from_70(strengths, overall_score) ==
    strengths = <<>> /\ FGe(overall_score, Lit_70)

\* Variant: the generic strength is added whatever strengths holds.
generic_strength_applies_regardless(strengths, overall_score) ==
    FGe(overall_score, Lit_60)

\* not feedback['strengths'] and overall_score >= 60
generic_strength_applies(strengths, overall_score) ==
    strengths = <<>> /\ FGe(overall_score, Lit_60)

\* Variant: the review message is added at every score.
review_jd_applies_at_any_score(missing_keywords_suggestions, overall_score) ==
    missing_keywords_suggestions = <<>>

\* not feedback['missing_keywords_suggestions'] and overall_score < 70
review_jd_applies(missing_keywords_suggestions, overall_score) ==
    missing_keywords_suggestions = <<>> /\ FLt(overall_score, Lit_70)

\* 3. Specific suggestions based on keywords and semantic score.
keyword_suggestions_step(feedback, missing_keywords, common_keywords, overall_score, top_n) ==
    LET f1 == IF common_keywords # <<>>
              THEN AppendTo(feedback, "strengths",
                            Msg("effectively highlights skills like",
                                Slice(common_keywords, top_n), 0))
              ELSE feedback
        f2 == IF keyword_coverage_applies(missing_keywords, overall_score)
              THEN AppendTo(f1, "strengths",
                            Msg("Great keyword coverage", <<>>, 0))
              ELSE f1
        f3 == IF generic_strength_applies(f2["strengths"], overall_score)
              THEN AppendTo(f2, "strengths",
                            Msg("good overall match", <<>>, 0))
              ELSE f2
    IN  IF review_jd_applies(f3["missing_keywords_suggestions"], overall_score)
        THEN AppendTo(f3, "areas_for_improvement",
                      Msg("Review the job description for any specific skills",
                          <<>>, 0))
        ELSE f3

\* Variant: empty lists are left in the dict.
consolidate_keeping_empty(feedback) == feedback

\* Consolidate feedback if some lists are empty.
consolidate(feedback) ==
    LET f1 == IF feedback["strengths"] = <<>>
              THEN Pop(feedback, "strengths") ELSE feedback
        f2 == IF f1["areas_for_improvement"] = <<>>
              THEN Pop(f1, "areas_for_improvement") ELSE f1
    IN  IF f2["missing_keywords_suggestions"] = <<>>
        THEN Pop(f2, "missing_keywords_suggestions") ELSE f2

\* generate_feedback, given the orders in which its two sets are listed.
generate_feedback(missing_keywords, common_keywords, semantic_similarity_score, overall_score, top_n) ==
    LET feedback == [k \in Categories |-> <<>>]
        f1 == missing_keywords_step(feedback, missing_keywords, top_n)
        f2 == overall_summary_step(f1, semantic_similarity_score, overall_score)
        f3 == keyword_suggestions_step(f2, missing_keywords, common_keywords,
                                       overall_score, top_n)
    IN  consolidate(f3)

\* Inputs of the calls that are drawn.
FeedbackKeywords == { <<"a", "i">>, <<"A", "I">>, <<"d", "b">> }
FeedbackKeywordLists == BoundedSeq(FeedbackKeywords, MaxLen)
FeedbackSemanticInputs == { Lit(2, 10), Lit_0_5, Lit_0_60, Lit_0_75 }
FeedbackOverallInputs == { IntToFloat(15), Lit_50, Lit_60,
                           Lit_70, Lit_75, IntToFloat(88) }
TopNInputs == 0..MaxTopN

\* The caller holds the two keyword lists; the remaining arguments are chosen
\* at the call.
InitFeedback ==
    /\ OthersIdle
    /\ fb_call \in [fn : {"caller"}, resume_keywords : FeedbackKeywordLists,
                    jd_keywords : FeedbackKeywordLists]
    /\ fb_ret = Pending
    /\ ScorerIdle /\ SemanticIdle /\ ExtractorIdle /\ ProcessorIdle /\ ApiIdle

GenerateFeedback ==
    /\ fb_call # Idle
    /\ fb_call.fn = "caller"
    /\ \E s \in FeedbackSemanticInputs, o \in FeedbackOverallInputs,
          n \in TopNInputs,
          missing_keywords \in ListsOf(missing_keyword_set(
              fb_call.resume_keywords, fb_call.jd_keywords)),
          common_keywords \in ListsOf(common_keyword_set(
              fb_call.resume_keywords, fb_call.jd_keywords)) :
          /\ fb_call' = [fn |-> "generate_feedback",
                         resume_keywords |-> fb_call.resume_keywords,
                         jd_keywords |-> fb_call.jd_keywords,
                         semantic_similarity_score |-> s,
                         overall_score |-> o,
                         top_n_missing_keywords |-> n]
          /\ fb_ret' = Return(generate_feedback(missing_keywords,
                                                common_keywords, s, o, n))
    /\ UNCHANGED <<scorerVars, semanticVars, extractorVars, processorVars, apiVars, filesVars, concurrentVars, frontendVars>>

NextFeedback == GenerateFeedback

SpecFeedback == InitFeedback /\ [][NextFeedback]_vars

FbReturned == fb_ret # Pending

\* feedback.get(category, []) of the returned dict.
FbList(category) ==
    IF category \in DOMAIN fb_ret.value THEN fb_ret.value[category] ELSE <<>>

\* How many messages with this id the returned dict holds in a category.
FbCount(category, id) ==
    Cardinality({ i \in 1..Len(FbList(category)) : FbList(category)[i].id = id })

\* The lowercased keywords of the two argument lists.
FbResumeSet == { Lower(fb_call.resume_keywords[i]) :
                     i \in 1..Len(fb_call.resume_keywords) }
FbJdSet == { Lower(fb_call.jd_keywords[i]) : i \in 1..Len(fb_call.jd_keywords) }

FbOverall == fb_call.overall_score
FbSemantic == fb_call.semantic_similarity_score
FbTopN == fb_call.top_n_missing_keywords

\* C1: overall_summary holds exactly one message, chosen by band: 'Excellent
\* match' iff overall_score >= 75, 'Good potential' iff 50 <= overall_score
\* < 75, 'Needs improvement' iff overall_score < 50.
C1_SummaryByBand ==
    FbReturned =>
        /\ Len(FbList("overall_summary")) = 1
        /\ FbCount("overall_summary", "Excellent match") = 1
               <=> FGe(FbOverall, Lit_75)
        /\ FbCount("overall_summary", "Good potential") = 1
               <=> (FGe(FbOverall, Lit_50)
                    /\ FLt(FbOverall, Lit_75))
        /\ FbCount("overall_summary", "Needs improvement") = 1
               <=> FLt(FbOverall, Lit_50)

\* A call with overall_score exactly 75 that returned the 'Excellent match'
\* summary.
C1_Witness ==
    /\ FbReturned
    /\ FbOverall = Lit_75
    /\ FbList("overall_summary") = << Msg("Excellent match", <<>>, 75) >>

\* Number of copies of a message the returned dict must hold.
Expect(condition) == IF condition THEN 1 ELSE 0

FbHigh == FGe(FbOverall, Lit_75)
FbMedium == FGe(FbOverall, Lit_50) /\ FLt(FbOverall, Lit_75)
FbLow == FLt(FbOverall, Lit_50)

BandNoteIds == { "strong semantic alignment", "Good semantic alignment",
                 "generally well-aligned", "consider tailoring your language",
                 "semantic similarity is currently low",
                 "highlights the most relevant skills" }

\* C2: each band adds exactly its conditional message.  High: the strong
\* alignment strength if semantic >= 0.75, else the 'Good semantic alignment'
\* strength if semantic >= 0.60, else nothing.  Medium: the alignment strength
\* if semantic >= 0.60, else the terminology-tailoring improvement note.  Low:
\* the low-semantic-similarity improvement note if semantic < 0.50, else the
\* highlight-relevant-skills improvement note.
C2_BandConditionalMessage ==
    FbReturned =>
        /\ FbCount("strengths", "strong semantic alignment") =
               Expect(FbHigh /\ FGe(FbSemantic, Lit_0_75))
        /\ FbCount("strengths", "Good semantic alignment") =
               Expect(FbHigh /\ FLt(FbSemantic, Lit_0_75)
                             /\ FGe(FbSemantic, Lit_0_60))
        /\ FbCount("strengths", "generally well-aligned") =
               Expect(FbMedium /\ FGe(FbSemantic, Lit_0_60))
        /\ FbCount("areas_for_improvement", "consider tailoring your language") =
               Expect(FbMedium /\ FLt(FbSemantic, Lit_0_60))
        /\ FbCount("areas_for_improvement",
                   "semantic similarity is currently low") =
               Expect(FbLow /\ FLt(FbSemantic, Lit_0_5))
        /\ FbCount("areas_for_improvement",
                   "highlights the most relevant skills") =
               Expect(FbLow /\ FGe(FbSemantic, Lit_0_5))
        \* no band message in a category other than its own
        /\ \A id \in BandNoteIds :
               /\ FbCount("overall_summary", id) = 0
               /\ FbCount("missing_keywords_suggestions", id) = 0
               /\ FbCount("strengths", id) + FbCount("areas_for_improvement", id)
                      <= 1
               /\ FbCount("strengths", id) = 1 =>
                      id \in { "strong semantic alignment",
                               "Good semantic alignment",
                               "generally well-aligned" }
               /\ FbCount("areas_for_improvement", id) = 1 =>
                      id \notin { "strong semantic alignment",
                                  "Good semantic alignment",
                                  "generally well-aligned" }

\* A medium-band call with semantic score 0.5, below 0.60, that returned the
\* terminology-tailoring note and no alignment strength.
C2_Witness ==
    /\ FbReturned
    /\ FbOverall = Lit_60
    /\ FbSemantic = Lit_0_5
    /\ FbCount("areas_for_improvement", "consider tailoring your language") = 1
    /\ FbCount("strengths", "generally well-aligned") = 0

\* C3: the returned map has keys only among the four categories and every
\* key present maps to a non-empty list.
C3_NoEmptyCategory ==
    FbReturned =>
        /\ DOMAIN fb_ret.value \subseteq
               { "overall_summary", "strengths", "areas_for_improvement",
                 "missing_keywords_suggestions" }
        /\ \A k \in DOMAIN fb_ret.value : Len(fb_ret.value[k]) > 0

\* A returned map from which two categories were removed: a high-band call
\* with no missing keyword leaves only overall_summary and strengths.
C3_Witness ==
    /\ FbReturned
    /\ FbHigh
    /\ DOMAIN fb_ret.value = { "overall_summary", "strengths" }

\* The missing set and the shared set of the call, case-insensitively.
FbMissing == FbJdSet \ FbResumeSet
FbCommon == FbJdSet \cap FbResumeSet

Distinct(list) == \A i, j \in 1..Len(list) : list[i] = list[j] => i = j

\* C4: the missing set is (lowercased JD keywords) minus (lowercased resume
\* keywords).  If it is non-empty, missing_keywords_suggestions has a first
\* message naming min(topNMissing, |missing|) terms, all from the missing set,
\* and a second message iff |missing| > topNMissing, reporting exactly
\* |missing| - topNMissing; if the missing set is empty the category is absent.
C4_MissingKeywordSuggestions ==
    FbReturned =>
        LET list == FbList("missing_keywords_suggestions")
            n == Cardinality(FbMissing)
        IN  /\ (n = 0) =>
                   "missing_keywords_suggestions" \notin DOMAIN fb_ret.value
            /\ (n > 0) =>
                   /\ Len(list) >= 1
                   /\ list[1].id = "Consider incorporating relevant keywords"
                   /\ Len(list[1].terms) = Min(FbTopN, n)
                   /\ Distinct(list[1].terms)
                   /\ \A i \in 1..Len(list[1].terms) :
                          list[1].terms[i] \in FbMissing
                   /\ Len(list) = IF n > FbTopN THEN 2 ELSE 1
                   /\ (n > FbTopN) =>
                          /\ list[2].id = "There are N more keywords"
                          /\ list[2].num = n - FbTopN

\* A call where the JD has two keywords the resume lacks, one of them written
\* in upper case, and top_n is 1: one lowercased term is named and the second
\* message reports 1 more.
C4_Witness ==
    /\ FbReturned
    /\ fb_call.resume_keywords = <<>>
    /\ fb_call.jd_keywords = << <<"d", "b">>, <<"A", "I">> >>
    /\ FbTopN = 1
    /\ Len(FbList("missing_keywords_suggestions")) = 2
    /\ FbList("missing_keywords_suggestions")[1].terms = << <<"a", "i">> >>
    /\ FbList("missing_keywords_suggestions")[2].num = 1

\* Whether the band rule produces a strength for the call's scores.
FbBandStrength == (FbHigh \/ FbMedium) /\ FGe(FbSemantic, Lit_0_60)

\* C5 as stated: whenever neither the band rule nor the keyword-overlap rule
\* produced a strength and overall_score >= 60, strengths contain the generic
\* 'good overall match' message.
C5_GenericStrengthOriginal ==
    (FbReturned /\ ~ FbBandStrength /\ FbCommon = {} /\ FGe(FbOverall, Lit_60))
        => FbCount("strengths", "good overall match") >= 1

\* C5 amended: whenever none of the band rule, the keyword-overlap rule and the
\* keyword-coverage rule (no missing keyword and overall_score >= 70) produced
\* a strength and overall_score >= 60, strengths contain the generic 'good
\* overall match' message.
C5_GenericStrength ==
    (/\ FbReturned
     /\ ~ FbBandStrength
     /\ FbCommon = {}
     /\ ~ (FbMissing = {} /\ FGe(FbOverall, Lit_70))
     /\ FGe(FbOverall, Lit_60))
        => FbCount("strengths", "good overall match") >= 1

\* A call with overall_score 60, semantic 0.5 and no shared keyword whose
\* strengths are the generic message alone.
C5_Witness ==
    /\ FbReturned
    /\ FbOverall = Lit_60
    /\ FbSemantic = Lit_0_5
    /\ FbCommon = {}
    /\ FbList("strengths") = << Msg("good overall match", <<>>, 0) >>

\* C6: when the case-insensitive set of missing JD keywords is empty exactly
\* one fallback message is added: the 'Great keyword coverage' strength if
\* overall_score >= 70, the 'Review the job description' improvement note if
\* overall_score < 70; when the missing set is non-empty neither is added.
C6_KeywordFallback ==
    FbReturned =>
        /\ FbCount("strengths", "Great keyword coverage") =
               Expect(FbMissing = {} /\ FGe(FbOverall, Lit_70))
        /\ FbCount("areas_for_improvement",
                   "Review the job description for any specific skills") =
               Expect(FbMissing = {} /\ FLt(FbOverall, Lit_70))
        /\ FbCount("areas_for_improvement", "Great keyword coverage") = 0
        /\ FbCount("strengths",
                   "Review the job description for any specific skills") = 0

\* A call with overall_score exactly 70 whose JD keywords all occur in the
\* resume, one of them in another case: the coverage strength is returned and
\* no review note.
C6_Witness ==
    /\ FbReturned
    /\ FbOverall = Lit_70
    /\ fb_call.jd_keywords = << <<"a", "i">> >>
    /\ fb_call.resume_keywords = << <<"A", "I">> >>
    /\ FbCount("strengths", "Great keyword coverage") = 1
    /\ FbCount("areas_for_improvement",
               "Review the job description for any specific skills") = 0

\* C7: the 'effectively highlights skills like' strength is emitted exactly
\* once iff the intersection of the lowercased keyword sets is non-empty, and
\* it names min(topNMissing, |intersection|) terms, all in the intersection.
C7_OverlapStrength ==
    FbReturned =>
        LET id == "effectively highlights skills like"
            n == Cardinality(FbCommon)
            at == { i \in 1..Len(FbList("strengths")) :
                        FbList("strengths")[i].id = id }
        IN  /\ Cardinality(at) = Expect(n > 0)
            /\ \A c \in Categories \ {"strengths"} : FbCount(c, id) = 0
            /\ \A i \in at :
                   LET terms == FbList("strengths")[i].terms
                   IN  /\ Len(terms) = Min(FbTopN, n)
                       /\ Distinct(terms)
                       /\ \A j \in 1..Len(terms) : terms[j] \in FbCommon

\* A call whose lists share two keywords, one of them only up to case, with
\* top_n 1: the strength names one shared term.
C7_Witness ==
    /\ FbReturned
    /\ fb_call.resume_keywords = << <<"A", "I">>, <<"d", "b">> >>
    /\ fb_call.jd_keywords = << <<"a", "i">>, <<"d", "b">> >>
    /\ FbTopN = 1
    /\ FbCount("strengths", "effectively highlights skills like") = 1
    /\ \E i \in 1..Len(FbList("strengths")) :
           FbList("strengths")[i].terms = << <<"a", "i">> >>

(***************************************************************************)
(* Python values passed where a text is expected.  A str holds its         *)
(* characters; a value of another type holds the characters of its repr.   *)
(***************************************************************************)
Str(chars) == [type |-> "str", val |-> chars]
IntValue(digits) == [type |-> "int", val |-> digits]
NoneValue == [type |-> "NoneType", val |-> <<>>]

\* isinstance(v, str)
isinstance_str(v) == v.type = "str"

Whitespace == { " ", "\t", "\n" }

\* str.strip()
strip(chars) ==
    LET kept == { i \in DOMAIN chars : chars[i] \notin Whitespace }
    IN  IF kept = {} THEN <<>>
        ELSE SubSeq(chars, CHOOSE i \in kept : \A j \in kept : i <= j,
                           CHOOSE i \in kept : \A j \in kept : i >= j)

\* C26: the areas_for_improvement category is absent from the result
\* whenever overall_score >= 75 and present whenever overall_score < 50, for
\* all keyword lists and semantic scores.
C26_ImprovementByBand ==
    FbReturned =>
        /\ FbHigh => "areas_for_improvement" \notin DOMAIN fb_ret.value
        /\ FbLow => /\ "areas_for_improvement" \in DOMAIN fb_ret.value
                    /\ fb_ret.value["areas_for_improvement"] # <<>>

\* A call with overall_score 75 and the same keyword on both sides, so that
\* no keyword suggestion is made: the result has no areas_for_improvement.
C26_Witness ==
    /\ FbReturned
    /\ FbOverall = Lit_75
    /\ fb_call.resume_keywords = << <<"a", "i">> >>
    /\ fb_call.jd_keywords = << <<"A", "I">> >>
    /\ "missing_keywords_suggestions" \notin DOMAIN fb_ret.value
    /\ "areas_for_improvement" \notin DOMAIN fb_ret.value

\* C27: the generic 'good overall match' strength never appears together
\* with another strength: when present it is the only element of strengths.
C27_GenericStrengthAlone ==
    (FbReturned /\ FbCount("strengths", "good overall match") >= 1)
        => FbList("strengths") = << Msg("good overall match", <<>>, 0) >>

\* A call with overall_score 70, semantic score 0.5 and a missing keyword:
\* strengths holds the generic message alone.
C27_Witness ==
    /\ FbReturned
    /\ FbOverall = Lit_70
    /\ FbSemantic = Lit_0_5
    /\ fb_call.resume_keywords = <<>>
    /\ fb_call.jd_keywords = << <<"d", "b">> >>
    /\ FbList("strengths") = << Msg("good overall match", <<>>, 0) >>

(***************************************************************************)
(* semantic_analyzer.calculate_semantic_similarity                         *)
(*                                                                         *)
(* sentence_model is the module global: the loaded SentenceTransformer or  *)
(* None.  What encode and cosine_similarity do with two texts is not       *)
(* decided by this program: the cosine of the two embeddings can be any    *)
(* value of [-1, 1] up to rounding, and either call can throw.             *)
(***************************************************************************)
ModelNone == "None"
SentenceTransformer == "SentenceTransformer"

\* 1.0 plus one unit in the last place.
OnePlusUlp == [m |-> One.m + 1, e |-> One.e]

CosineValues == { Lit(-25, 100), Zero, Lit(3, 10), Lit_0_85, One, OnePlusUlp }

EmbeddingOutcomes == { Raise("Exception") } \cup { Return(c) : c \in CosineValues }

\* Variant: any empty input gives 0.0.
empty_input_similarity_always_zero(text1, text2) == Zero

\* if not text1.strip() and not text2.strip(): return 1.0 / return 0.0
empty_input_similarity(text1, text2) ==
    IF strip(text1.val) = <<>> /\ strip(text2.val) = <<>> THEN One ELSE Zero

\* Variant: no except clause around the try block.
encode_and_compare_uncaught(embedding) == embedding

\* try: encode, cosine_similarity, return float(similarity_score)
\* except Exception: return 0.0
encode_and_compare(embedding) ==
    IF embedding.kind = "raise" THEN Return(Zero)
    ELSE Return(embedding.value)

calculate_semantic_similarity(text1, text2, embedding) ==
    IF sentence_model = ModelNone THEN Return(Zero)
    ELSE IF ~ isinstance_str(text1) \/ ~ isinstance_str(text2) THEN Return(Zero)
    ELSE IF strip(text1.val) = <<>> \/ strip(text2.val) = <<>>
    THEN Return(empty_input_similarity(text1, text2))
    ELSE encode_and_compare(embedding)

\* Inputs of the calls that are drawn: "", " \n", "AI", " db ", 123, None.
SemanticTexts ==
    { Str(<<>>), Str(<<" ", "\n">>), Str(<<"A", "I">>),
      Str(<<" ", "d", "b", " ">>), IntValue(<<"1", "2", "3">>), NoneValue }

\* The module has been imported, with or without its model; the caller holds
\* the first text.
InitSemantic ==
    /\ OthersIdle
    /\ sentence_model \in { SentenceTransformer, ModelNone }
    /\ ss_call \in [fn : {"caller"}, text1 : SemanticTexts]
    /\ ss_ret = Pending
    /\ ScorerIdle /\ FeedbackIdle /\ ExtractorIdle /\ ProcessorIdle /\ ApiIdle

CalculateSemanticSimilarity ==
    /\ ss_call # Idle
    /\ ss_call.fn = "caller"
    /\ \E text2 \in SemanticTexts, embedding \in EmbeddingOutcomes :
          /\ ss_call' = [fn |-> "calculate_semantic_similarity",
                         text1 |-> ss_call.text1, text2 |-> text2,
                         embedding |-> embedding]
          /\ ss_ret' = calculate_semantic_similarity(ss_call.text1, text2,
                                                     embedding)
    /\ UNCHANGED <<sentence_model, scorerVars, feedbackVars, extractorVars, processorVars, apiVars, filesVars, concurrentVars, frontendVars>>

NextSemantic == CalculateSemanticSimilarity

SpecSemantic == InitSemantic /\ [][NextSemantic]_vars

SsCalled == ss_call # Idle /\ ss_call.fn = "calculate_semantic_similarity"

\* v is a string that is empty or holds whitespace only.
Blank(v) ==
    isinstance_str(v) /\ \A i \in DOMAIN v.val : v.val[i] \in Whitespace

SsBothBlank == Blank(ss_call.text1) /\ Blank(ss_call.text2)

SsOneBlank == Blank(ss_call.text1) # Blank(ss_call.text2)

\* Both inputs are strings that are not blank and the model is loaded, so the
\* texts are encoded.
SsEncoded ==
    /\ sentence_model = SentenceTransformer
    /\ isinstance_str(ss_call.text1) /\ ~ Blank(ss_call.text1)
    /\ isinstance_str(ss_call.text2) /\ ~ Blank(ss_call.text2)

\* C14 as stated: calculate_semantic_similarity returns 1.0 when both inputs
\* are empty or whitespace-only strings, and 0.0 when exactly one of them is.
C14_EmptyInputsOriginal ==
    SsCalled =>
        /\ SsBothBlank => ss_ret = Return(One)
        /\ SsOneBlank => ss_ret = Return(Zero)

\* C14: when the embedding model is loaded, calculate_semantic_similarity
\* returns 1.0 when both inputs are empty or whitespace-only strings, and 0.0
\* when exactly one of them is; when the model is not loaded it returns 0.0
\* in both cases.
C14_EmptyInputs ==
    SsCalled =>
        /\ (sentence_model = SentenceTransformer /\ SsBothBlank)
              => ss_ret = Return(One)
        /\ (sentence_model = SentenceTransformer /\ SsOneBlank)
              => ss_ret = Return(Zero)
        /\ (sentence_model = ModelNone /\ (SsBothBlank \/ SsOneBlank))
              => ss_ret = Return(Zero)

\* With the model loaded, calculate_semantic_similarity("", " \n") returned
\* 1.0.
C14_Witness ==
    /\ SsCalled
    /\ sentence_model = SentenceTransformer
    /\ ss_call.text1 = Str(<<>>)
    /\ ss_call.text2 = Str(<<" ", "\n">>)
    /\ ss_ret = Return(One)

\* C15: calculate_semantic_similarity never raises: it returns 0.0 on every
\* call when the embedding model failed to load, 0.0 when either input is not
\* a string, and 0.0 when encoding or the cosine computation throws.
C15_NeverRaises ==
    SsCalled =>
        /\ ss_ret # Pending /\ ss_ret.kind = "return"
        /\ sentence_model = ModelNone => ss_ret = Return(Zero)
        /\ (~ isinstance_str(ss_call.text1) \/ ~ isinstance_str(ss_call.text2))
              => ss_ret = Return(Zero)
        /\ (SsEncoded /\ ss_call.embedding.kind = "raise")
              => ss_ret = Return(Zero)

\* With the model loaded, encoding "AI" and " db " threw and the call
\* returned 0.0.
C15_Witness ==
    /\ SsCalled
    /\ sentence_model = SentenceTransformer
    /\ ss_call.text1 = Str(<<"A", "I">>)
    /\ ss_call.text2 = Str(<<" ", "d", "b", " ">>)
    /\ ss_call.embedding = Raise("Exception")
    /\ ss_ret = Return(Zero)

\* C16: every value returned by calculate_semantic_similarity lies in
\* [0, 1], whatever cosine value the two embeddings produce.
C16_SimilarityInUnitInterval ==
    (SsCalled /\ ss_ret # Pending /\ ss_ret.kind = "return")
        => (FLe(Zero, ss_ret.value) /\ FLe(ss_ret.value, One))

(***************************************************************************)
(* text_processor: lowercase_text, remove_punctuation,                     *)
(* remove_stopwords_nltk, lemmatize_text_spacy, preprocess_text            *)
(*                                                                         *)
(* nlp is the module global: the loaded spaCy pipeline or None.  The NLTK  *)
(* tokenizer, the NLTK stop word list and the spaCy lemmatizer are given   *)
(* by what they do on the words of the inputs that are drawn.              *)
(***************************************************************************)
Language == "Language"

\* " ".join(words)
RECURSIVE Join(_)

Join(words) ==
    IF words = <<>> THEN <<>>
    ELSE IF Len(words) = 1 THEN words[1]
    ELSE words[1] \o <<" ">> \o Join(Tail(words))

\* The maximal runs of characters of chars[i..] that are not in seps, after
\* the run that has been read so far.
RECURSIVE RunsFrom(_, _, _, _)

RunsFrom(chars, seps, i, run) ==
    IF i > Len(chars) THEN (IF run = <<>> THEN <<>> ELSE <<run>>)
    ELSE IF chars[i] \in seps
    THEN (IF run = <<>> THEN <<>> ELSE <<run>>) \o RunsFrom(chars, seps, i + 1, <<>>)
    ELSE RunsFrom(chars, seps, i + 1, Append(run, chars[i]))

Runs(chars, seps) == RunsFrom(chars, seps, 1, <<>>)

\* str.split()
split(chars) == Runs(chars, Whitespace)

\* The characters of string.punctuation that occur in the inputs.
Punctuation == { ",", ".", "!", "-" }

\* The words of the inputs that are in nltk.corpus.stopwords.words('english').
stop_words == { <<"t", "h", "e">>, <<"d", "o">> }

\* nltk.tokenize.word_tokenize on a text without punctuation.
word_tokenize(chars) == Runs(chars, Whitespace)

\* token.lemma_ for the words of the inputs.
lemma_(word) ==
    CASE word = <<"d", "b", "s">> -> <<"d", "b">>
      [] word = <<"d", "o", "n", "e">> -> <<"d", "o">>
      [] OTHER -> word

\* The tokens of nlp(text) for a text whose words are separated by single
\* spaces.
spacy_tokens(chars) == Runs(chars, Whitespace)

lowercase_text(text) ==
    IF ~ isinstance_str(text) THEN Str(<<>>)
    ELSE Str(Lower(text.val))

\* Variant: a value that is not a string is converted to one.
remove_punctuation_unguarded(text) ==
    Str(SelectSeq(text.val, LAMBDA c : c \notin Punctuation))

remove_punctuation(text) ==
    IF ~ isinstance_str(text) THEN Str(<<>>)
    ELSE Str(SelectSeq(text.val, LAMBDA c : c \notin Punctuation))

remove_stopwords_nltk(text) ==
    IF ~ isinstance_str(text) THEN Str(<<>>)
    ELSE LET words == word_tokenize(text.val)
             filtered_words == SelectSeq(words, LAMBDA word : Lower(word) \notin stop_words)
         IN  Str(Join(filtered_words))

lemmatize_text_spacy(text) ==
    IF ~ isinstance_str(text) THEN Str(<<>>)
    ELSE IF nlp = ModelNone THEN text
    ELSE LET doc == spacy_tokens(text.val)
             lemmatized_words == [i \in DOMAIN doc |-> lemma_(doc[i])]
         IN  Str(Join(lemmatized_words))

preprocess_text(text) ==
    IF ~ isinstance_str(text) THEN Str(<<>>)
    ELSE LET lowered == lowercase_text(text)
             unpunctuated == remove_punctuation(lowered)
             unstopped == remove_stopwords_nltk(unpunctuated)
             lemmatized == IF nlp # ModelNone THEN lemmatize_text_spacy(unstopped)
                           ELSE unstopped
         IN  Str(Join(split(lemmatized.val)))

\* Texts: "", " \n", "AI", " db ", "the", "ai db", "dbs ai", "ai ai db",
\* "the dbs, AI", "DB - the ai!", "done db".
T_Empty == Str(<<>>)
T_Blank == Str(<<" ", "\n">>)
T_AI == Str(<<"A", "I">>)
T_PaddedDb == Str(<<" ", "d", "b", " ">>)
T_The == Str(<<"t", "h", "e">>)
T_AiDb == Str(<<"a", "i", " ", "d", "b">>)
T_DbsAi == Str(<<"d", "b", "s", " ", "a", "i">>)
T_AiAiDb == Str(<<"a", "i", " ", "a", "i", " ", "d", "b">>)
T_TheDbsAI == Str(<<"t", "h", "e", " ", "d", "b", "s", ",", " ", "A", "I">>)
T_DBTheAi == Str(<<"D", "B", " ", "-", " ", "t", "h", "e", " ", "a", "i", "!">>)
T_DoneDb == Str(<<"d", "o", "n", "e", " ", "d", "b">>)

NonStrings == { IntValue(<<"1", "2", "3">>), NoneValue }

\* Lowercase texts whose words are separated by single spaces.
PlainTexts == { T_Empty, T_The, T_AiDb, T_DbsAi, T_AiAiDb, T_DoneDb }

\* Texts without punctuation.
UnpunctuatedTexts == PlainTexts \cup { T_Blank, T_AI, T_PaddedDb }

AnyTexts == UnpunctuatedTexts \cup { T_TheDbsAI, T_DBTheAi }

\* The arguments each function is called with.
ProcessorInputs(fn) ==
    NonStrings \cup
    CASE fn = "lemmatize_text_spacy" -> PlainTexts
      [] fn = "remove_stopwords_nltk" -> UnpunctuatedTexts
      [] OTHER -> AnyTexts

ProcessorFunctions ==
    { "lowercase_text", "remove_punctuation", "remove_stopwords_nltk",
      "lemmatize_text_spacy", "preprocess_text" }

processor_call(fn, text) ==
    CASE fn = "lowercase_text" -> lowercase_text(text)
      [] fn = "remove_punctuation" -> remove_punctuation(text)
      [] fn = "remove_stopwords_nltk" -> remove_stopwords_nltk(text)
      [] fn = "lemmatize_text_spacy" -> lemmatize_text_spacy(text)
      [] fn = "preprocess_text" -> preprocess_text(text)

\* The module has been imported, with or without the spaCy model; the caller
\* holds a value.
InitProcessor ==
    /\ OthersIdle
    /\ nlp \in { Language, ModelNone }
    /\ tp_call \in [fn : {"caller"}, text : AnyTexts \cup NonStrings]
    /\ tp_ret = Pending
    /\ ScorerIdle /\ FeedbackIdle /\ SemanticIdle /\ ExtractorIdle /\ ApiIdle

CallProcessor ==
    /\ tp_call # Idle
    /\ tp_call.fn = "caller"
    /\ \E fn \in ProcessorFunctions :
          /\ tp_call.text \in ProcessorInputs(fn)
          /\ tp_call' = [fn |-> fn, text |-> tp_call.text]
          /\ tp_ret' = Return(processor_call(fn, tp_call.text))
    /\ UNCHANGED <<nlp, scorerVars, feedbackVars, semanticVars, extractorVars, apiVars, filesVars, concurrentVars, frontendVars>>

NextProcessor == CallProcessor

SpecProcessor == InitProcessor /\ [][NextProcessor]_vars

TpCalled == tp_call # Idle /\ tp_call.fn \in ProcessorFunctions

\* C20: preprocess_text and each stage function (lowercase_text,
\* remove_punctuation, remove_stopwords_nltk, lemmatize_text_spacy) return ""
\* without raising for every input that is not a string, and return "" for
\* the input "".
C20_EmptyForNonStringAndEmpty ==
    TpCalled =>
        /\ tp_ret # Pending /\ tp_ret.kind = "return"
        /\ tp_call.text.type # "str" => tp_ret.value = [type |-> "str", val |-> <<>>]
        /\ tp_call.text = [type |-> "str", val |-> <<>>]
              => tp_ret.value = [type |-> "str", val |-> <<>>]

\* remove_punctuation(123) returned "".
C20_Witness ==
    /\ TpCalled
    /\ tp_call.fn = "remove_punctuation"
    /\ tp_call.text = IntValue(<<"1", "2", "3">>)
    /\ tp_ret = Return(Str(<<>>))

\* What the texts are turned into.
ProcessorExamples ==
    TpCalled =>
        /\ (tp_call.fn = "preprocess_text" /\ tp_call.text = T_TheDbsAI)
              => tp_ret.value = (IF nlp = Language THEN Str(<<"d", "b", " ", "a", "i">>)
                                 ELSE Str(<<"d", "b", "s", " ", "a", "i">>))
        /\ (tp_call.fn = "preprocess_text" /\ tp_call.text = T_DBTheAi)
              => tp_ret.value = Str(<<"d", "b", " ", "a", "i">>)
        /\ (tp_call.fn = "preprocess_text" /\ tp_call.text \in {T_Blank, T_The})
              => tp_ret.value = Str(<<>>)
        /\ (tp_call.fn = "remove_punctuation" /\ tp_call.text = T_DBTheAi)
              => tp_ret.value = Str(<<"D", "B", " ", " ", "t", "h", "e", " ", "a", "i">>)
        /\ (tp_call.fn = "lowercase_text" /\ tp_call.text = T_AI)
              => tp_ret.value = Str(<<"a", "i">>)

\* C21: preprocess_text is idempotent: preprocess_text applied to its own
\* result returns that result, for every text.
C21_Idempotent ==
    (TpCalled /\ tp_call.fn = "preprocess_text")
        => preprocess_text(tp_ret.value) = tp_ret.value

\* C22: no token of the string returned by preprocess_text is an English
\* stop word, for every input text.
C22_NoStopwordInResult ==
    (TpCalled /\ tp_call.fn = "preprocess_text")
        => \A i \in DOMAIN split(tp_ret.value.val) :
              split(tp_ret.value.val)[i] \notin stop_words

(***************************************************************************)
(* keyword_extractor.extract_keywords_tfidf                                *)
(*                                                                         *)
(* TfidfVectorizer(stop_words='english') lowercases a document, takes the  *)
(* runs of two or more word characters as tokens, drops the stop words and *)
(* sorts the vocabulary.  The score of a term in a document is             *)
(* tf * idf with idf = ln((1 + n) / (1 + df)) + 1, divided by the norm of  *)
(* the document's row; the division by a positive number changes neither   *)
(* the order nor the sign of the scores of a row and is left out.  Scores  *)
(* are kept in millionths.                                                 *)
(***************************************************************************)
\* The words of the inputs that are in sklearn's English stop word list.
ENGLISH_STOP_WORDS == { <<"t", "h", "e">>, <<"d", "o">>, <<"d", "o", "n", "e">> }

\* The characters of the inputs that are not word characters (\w).
NonWordChars == Whitespace \cup Punctuation

\* The analyzer of the vectorizer: the tokens of a document.
analyze(chars) ==
    SelectSeq(Runs(Lower(chars), NonWordChars), LAMBDA w : Len(w) >= 2 /\ w \notin ENGLISH_STOP_WORDS)

Letters ==
    << "a", "b", "c", "d", "e", "f", "g", "h", "i", "j", "k", "l", "m",
       "n", "o", "p", "q", "r", "s", "t", "u", "v", "w", "x", "y", "z" >>

ord(c) == CHOOSE i \in DOMAIN Letters : Letters[i] = c

\* u < v for two strings
StrLess(u, v) ==
    \E k \in 1..(Min(Len(u), Len(v)) + 1) :
        /\ \A j \in 1..(k - 1) : u[j] = v[j]
        /\ \/ k > Len(u) /\ k <= Len(v)
           \/ k <= Len(u) /\ k <= Len(v) /\ ord(u[k]) < ord(v[k])

\* vectorizer.vocabulary_ as a set
vocabulary(corpus) ==
    UNION { ToSet(analyze(corpus[i].val)) : i \in DOMAIN corpus }

\* vectorizer.get_feature_names_out(): the vocabulary, sorted.
get_feature_names_out(corpus) ==
    LET V == vocabulary(corpus)
    IN  [k \in 1..Cardinality(V) |->
            CHOOSE t \in V : Cardinality({ u \in V : StrLess(u, t) }) = k - 1]

\* Number of occurrences of term among the tokens of a document.
tf(term, chars) ==
    LET tokens == analyze(chars)
    IN  Cardinality({ i \in DOMAIN tokens : tokens[i] = term })

\* Number of documents of the corpus that contain term.
df(term, corpus) ==
    Cardinality({ i \in DOMAIN corpus : tf(term, corpus[i].val) > 0 })

\* (ln((1 + n) / (1 + df)) + 1) * 10^6
idf(n, d) ==
    CASE n = d -> 1000000
      [] n = 2 /\ d = 1 -> 1405465
      [] n = 3 /\ d = 1 -> 1693147
      [] n = 3 /\ d = 2 -> 1287682

\* tfidf_matrix[i, :] over the sorted vocabulary
doc_vector(corpus, i) ==
    LET feature_names == get_feature_names_out(corpus)
    IN  [j \in DOMAIN feature_names |->
            tf(feature_names[j], corpus[i].val)
                * idf(Len(corpus), df(feature_names[j], corpus))]

\* Variant: the ascending order of argsort is not reversed.
sorted_indices_ascending(row) ==
    [k \in DOMAIN row |->
        CHOOSE j \in DOMAIN row :
            Cardinality({ l \in DOMAIN row :
                row[l] < row[j] \/ (row[l] = row[j] /\ l < j) }) = k - 1]

\* doc_vector.toarray().argsort()[0][::-1]: argsort leaves equal scores in
\* index order (rows of this size are sorted by insertion), and the result
\* is reversed.
sorted_indices(row) ==
    [k \in DOMAIN row |->
        CHOOSE j \in DOMAIN row :
            Cardinality({ l \in DOMAIN row :
                row[l] > row[j] \/ (row[l] = row[j] /\ l > j) }) = k - 1]

\* The loop over sorted_indices[:top_n] for document i.
doc_keywords(corpus, i, top_n) ==
    LET feature_names == get_feature_names_out(corpus)
        row == doc_vector(corpus, i)
        top == Slice(sorted_indices(row), top_n)
        kept == SelectSeq(top, LAMBDA idx : row[idx] > 0)
    IN  [k \in DOMAIN kept |-> feature_names[kept[k]]]

\* Variant: one empty list whatever the number of documents.
empty_keyword_lists_flat(corpus) == <<>>

\* [[] for _ in processed_text_corpus] if processed_text_corpus else []
empty_keyword_lists(corpus) == [i \in DOMAIN corpus |-> <<>>]

\* vectorizer.fit_transform(corpus) raises ValueError on an empty vocabulary.
fit_transform(corpus) ==
    IF vocabulary(corpus) = {} THEN Raise("ValueError")
    ELSE Return([i \in DOMAIN corpus |-> doc_vector(corpus, i)])

\* Variant: a document that is not a string gets an empty list and the
\* strings of the corpus are vectorized without it.
extract_keywords_tfidf_skipping_non_strings(processed_text_corpus, top_n) ==
    LET strings == SelectSeq(processed_text_corpus, isinstance_str)
        position(i) == Cardinality({ j \in 1..i : isinstance_str(processed_text_corpus[j]) })
    IN  IF strings = <<>> \/ fit_transform(strings).kind = "raise"
        THEN Return(empty_keyword_lists(processed_text_corpus))
        ELSE Return([i \in DOMAIN processed_text_corpus |->
                        IF isinstance_str(processed_text_corpus[i])
                        THEN doc_keywords(strings, position(i), top_n)
                        ELSE <<>>])

extract_keywords_tfidf(processed_text_corpus, top_n) ==
    IF \/ processed_text_corpus = <<>>
       \/ ~ \A i \in DOMAIN processed_text_corpus : isinstance_str(processed_text_corpus[i])
    THEN Return(empty_keyword_lists(processed_text_corpus))
    ELSE IF fit_transform(processed_text_corpus).kind = "raise"
    THEN Return(empty_keyword_lists(processed_text_corpus))
    ELSE Return([i \in DOMAIN processed_text_corpus |->
                    doc_keywords(processed_text_corpus, i, top_n)])

\* Documents: up to MaxLen words joined by single spaces, and one value that
\* is not a string.
DocWords == { <<"a", "i">>, <<"d", "b">>, <<"t", "h", "e">> }

Documents ==
    { Str(Join(ws)) : ws \in BoundedSeq(DocWords, MaxLen) }
        \cup { IntValue(<<"1", "2", "3">>) }

\* Corpora of no, one and two documents.
Corpora ==
    { <<>> } \cup { <<d>> : d \in Documents }
             \cup { <<d1, d2>> : d1 \in Documents, d2 \in Documents }

InitExtractor ==
    /\ OthersIdle
    /\ ke_call \in [fn : {"caller"}, processed_text_corpus : Corpora]
    /\ ke_ret = Pending
    /\ ScorerIdle /\ FeedbackIdle /\ SemanticIdle /\ ProcessorIdle /\ ApiIdle

ExtractKeywordsTfidf ==
    /\ ke_call # Idle
    /\ ke_call.fn = "caller"
    /\ \E top_n \in TopNInputs :
          /\ ke_call' = [fn |-> "extract_keywords_tfidf",
                         processed_text_corpus |-> ke_call.processed_text_corpus,
                         top_n |-> top_n]
          /\ ke_ret' = extract_keywords_tfidf(ke_call.processed_text_corpus, top_n)
    /\ UNCHANGED <<scorerVars, feedbackVars, semanticVars, processorVars, apiVars, filesVars, concurrentVars, frontendVars>>

NextExtractor == ExtractKeywordsTfidf

SpecExtractor == InitExtractor /\ [][NextExtractor]_vars

KeCalled == ke_call # Idle /\ ke_call.fn = "extract_keywords_tfidf"

KeCorpus == ke_call.processed_text_corpus

\* Every document is a string.
KeAllStrings == \A i \in DOMAIN KeCorpus : KeCorpus[i].type = "str"

\* Every document is the empty string or not a string.
KeOnlyEmptyOrNonString ==
    \A i \in DOMAIN KeCorpus : KeCorpus[i].type # "str" \/ KeCorpus[i].val = <<>>

\* No document has a token, so that vectorization fails.
KeVectorizationFails ==
    KeAllStrings /\ \A i \in DOMAIN KeCorpus : analyze(KeCorpus[i].val) = <<>>

\* The words of a text.
WordsOf(chars) == ToSet(Runs(chars, {" "}))

KeScore(term, i) ==
    tf(term, KeCorpus[i].val) * idf(Len(KeCorpus), df(term, KeCorpus))

\* The terms of the corpus with a positive score in document i.
KePositiveTerms(i) == { t \in vocabulary(KeCorpus) : KeScore(t, i) > 0 }

\* C19: every keyword list returned by extract_keywords_tfidf has pairwise
\* distinct terms, at most top_n entries, only terms with a strictly
\* positive TF-IDF score in the document, in non-increasing score order, and
\* it equals the first top_n positive-score terms of the document's
\* descending ranking: it has top_n of them, or all if there are fewer, and
\* no term left out scores higher than a term of the list.
C19_TopPositiveTerms ==
    (KeCalled /\ KeAllStrings) =>
        \A i \in DOMAIN ke_ret.value :
            LET list == ke_ret.value[i]
            IN  /\ \A a, b \in DOMAIN list : a # b => list[a] # list[b]
                /\ Len(list) <= ke_call.top_n
                /\ \A a \in DOMAIN list : KeScore(list[a], i) > 0
                /\ \A a, b \in DOMAIN list :
                      a < b => KeScore(list[a], i) >= KeScore(list[b], i)
                /\ ~ KeVectorizationFails =>
                      /\ Len(list) = Min(ke_call.top_n, Cardinality(KePositiveTerms(i)))
                      /\ \A t \in KePositiveTerms(i) \ ToSet(list) :
                            \A a \in DOMAIN list : KeScore(t, i) <= KeScore(list[a], i)

\* extract_keywords_tfidf(["ai ai", "ai db"], 1) returned [["ai"], ["db"]]:
\* in the second document "db", which the first document lacks, outscores
\* "ai".
C19_Witness ==
    /\ KeCalled
    /\ KeCorpus = << Str(<<"a", "i", " ", "a", "i">>), Str(<<"a", "i", " ", "d", "b">>) >>
    /\ ke_call.top_n = 1
    /\ ke_ret = Return(<< << <<"a", "i">> >>, << <<"d", "b">> >> >>)

MAX_INPUT_LENGTH == 200000

\* top_n=10 of extract_keywords_tfidf
default_top_n == 10

\* top_n_missing_keywords=5 of generate_feedback
default_top_n_missing_keywords == 5

\* keyword_weight=0.4, semantic_weight=0.6 of calculate_overall_score
\* Variant: the keyword score weighs one half.
default_keyword_weight_half == Lit(5, 10)

default_keyword_weight == Lit(4, 10)
default_semantic_weight == Lit(6, 10)

HTTPException(status_code) == [kind |-> "raise", exc |-> "HTTPException", status_code |-> status_code]

\* Variant: the check of the model is left out.
critical_model_missing_never(model) == FALSE

\* if global_sentence_model is None
critical_model_missing(model) == model = ModelNone

\* len(request.resume_text) > MAX_INPUT_LENGTH or
\* len(request.job_description_text) > MAX_INPUT_LENGTH
input_too_long(request) ==
    \/ Len(request.resume_text.val) > MAX_INPUT_LENGTH
    \/ Len(request.job_description_text.val) > MAX_INPUT_LENGTH

\* Steps 1 and 2 for one text: preprocess_text, then the first keyword list
\* of extract_keywords_tfidf([processed_text] if processed_text else [""]).
text_keywords(text) ==
    LET processed_text == preprocess_text(text)
        corpus == IF processed_text.val # <<>> THEN <<processed_text>> ELSE << Str(<<>>) >>
        keywords_list == extract_keywords_tfidf(corpus, default_top_n)
    IN  IF keywords_list.kind = "raise" THEN keywords_list
        ELSE Return(IF keywords_list.value # <<>> THEN keywords_list.value[1] ELSE <<>>)

\* missing_keywords and common_keywords are the orders in which
\* generate_feedback lists its two keyword sets.
analyze_resume(request, embedding, missing_keywords, common_keywords) ==
    IF critical_model_missing(sentence_model) THEN HTTPException(503)
    ELSE IF input_too_long(request) THEN HTTPException(413)
    ELSE
      LET resume_keywords == text_keywords(request.resume_text)
          jd_keywords == text_keywords(request.job_description_text)
          semantic_sim_score == calculate_semantic_similarity(request.resume_text, request.job_description_text, embedding)
      IN  IF \/ resume_keywords.kind = "raise" \/ jd_keywords.kind = "raise"
             \/ semantic_sim_score.kind = "raise"
          THEN HTTPException(500)
          ELSE
            LET overall_score == calculate_overall_score(resume_keywords.value, jd_keywords.value, semantic_sim_score.value, default_keyword_weight, default_semantic_weight)
                keyword_match_score_value == calculate_keyword_match_score(resume_keywords.value, jd_keywords.value)
            IN  IF overall_score.kind = "raise" THEN HTTPException(500)
                ELSE Return([overall_score |-> overall_score.value,
                             semantic_similarity_score |-> semantic_sim_score.value,
                             keyword_match_score |-> keyword_match_score_value,
                             feedback |-> generate_feedback(missing_keywords, common_keywords, semantic_sim_score.value, overall_score.value, default_top_n_missing_keywords),
                             resume_keywords |-> resume_keywords.value,
                             jd_keywords |-> jd_keywords.value])

\* A text of MAX_INPUT_LENGTH + 1 characters.
T_TooLong == Str([i \in 1..(MAX_INPUT_LENGTH + 1) |-> "x"])

\* Texts of the requests that are drawn.
RequestTexts ==
    { T_Empty, T_Blank, T_AI, T_The, T_AiDb, T_AiAiDb, T_TheDbsAI, T_TooLong }

\* The orders in which generate_feedback can list the missing and the common
\* keywords of a request that reaches the pipeline.
feedback_orders(request) ==
    IF critical_model_missing(sentence_model) \/ input_too_long(request)
    THEN { << <<>>, <<>> >> }
    ELSE LET resume_keywords == text_keywords(request.resume_text).value
             jd_keywords == text_keywords(request.job_description_text).value
         IN  ListsOf(missing_keyword_set(resume_keywords, jd_keywords))
                 \X ListsOf(common_keyword_set(resume_keywords, jd_keywords))

\* Both modules have been imported, each with or without its model; the
\* client holds the resume text.
InitAnalyze ==
    /\ OthersIdle
    /\ sentence_model \in { SentenceTransformer, ModelNone }
    /\ nlp \in { Language, ModelNone }
    /\ ar_call \in [fn : {"client"}, resume_text : RequestTexts]
    /\ ar_ret = Pending
    /\ ss_call = Idle /\ ss_ret = Pending
    /\ tp_call = Idle /\ tp_ret = Pending
    /\ ScorerIdle /\ FeedbackIdle /\ ExtractorIdle

AnalyzeResume ==
    /\ ar_call # Idle
    /\ ar_call.fn = "client"
    /\ \E job_description_text \in RequestTexts, embedding \in EmbeddingOutcomes :
          LET request == [resume_text |-> ar_call.resume_text,
                          job_description_text |-> job_description_text]
          IN  \E orders \in feedback_orders(request) :
                 /\ ar_call' = [fn |-> "analyze_resume",
                                resume_text |-> request.resume_text,
                                job_description_text |-> request.job_description_text,
                                embedding |-> embedding]
                 /\ ar_ret' = analyze_resume(request, embedding, orders[1], orders[2])
    /\ UNCHANGED <<sentence_model, ss_call, ss_ret, nlp, tp_call, tp_ret, scorerVars, feedbackVars, extractorVars, filesVars, concurrentVars, frontendVars>>

NextAnalyze == AnalyzeResume

SpecAnalyze == InitAnalyze /\ [][NextAnalyze]_vars

ArCalled == ar_call # Idle /\ ar_call.fn = "analyze_resume"

ArTooLong ==
    \/ Len(ar_call.resume_text.val) > MAX_INPUT_LENGTH
    \/ Len(ar_call.job_description_text.val) > MAX_INPUT_LENGTH

\* The request returned a result with all its parts.
ArFullResult ==
    /\ ar_ret # Pending /\ ar_ret.kind = "return"
    /\ DOMAIN ar_ret.value =
           { "overall_score", "semantic_similarity_score", "keyword_match_score",
             "feedback", "resume_keywords", "jd_keywords" }
    /\ "overall_summary" \in DOMAIN ar_ret.value.feedback

ArAccepted == ArCalled /\ sentence_model = SentenceTransformer /\ ~ ArTooLong

ArBlank == Blank(ar_call.resume_text) \/ Blank(ar_call.job_description_text)

ArSummary == ar_ret.value.feedback["overall_summary"]

\* C23: when one or both texts of an accepted request are empty or
\* whitespace-only, the request is not rejected: the pipeline completes and
\* yields overall_score < 50 with the 'Needs improvement' summary.
C23_BlankTextsScoreLow ==
    (ArAccepted /\ ArBlank) =>
        /\ ArFullResult
        /\ FLt(ar_ret.value.overall_score, Lit_50)
        /\ Len(ArSummary) = 1
        /\ ArSummary[1].id = "Needs improvement"

\* |A & B| / |A | B| of the two returned keyword lists, 0.0 when one is empty.
ArJaccard ==
    LET resume_set == ToSet(ar_ret.value.resume_keywords)
        jd_set == ToSet(ar_ret.value.jd_keywords)
    IN  IF resume_set = {} \/ jd_set = {} THEN Zero
        ELSE IntTrueDiv(Cardinality(resume_set \cap jd_set),
                        Cardinality(resume_set \cup jd_set))

ArClampedSemantic ==
    IF FLt(ar_ret.value.semantic_similarity_score, Zero) THEN Zero
    ELSE IF FGt(ar_ret.value.semantic_similarity_score, One) THEN One
    ELSE ar_ret.value.semantic_similarity_score

\* C25: in every successful response the fields are consistent:
\* overall_score = (0.4 * keyword_match_score + 0.6 * clamp(
\* semantic_similarity_score, 0, 1)) * 100, keyword_match_score is the
\* Jaccard score of the returned resume_keywords and jd_keywords, and the
\* overall_summary is the one of the band of the returned overall_score.
C25_ResponseConsistent ==
    (ArCalled /\ ar_ret # Pending /\ ar_ret.kind = "return") =>
        /\ ar_ret.value.overall_score =
              FMul(FAdd(FMul(Lit(4, 10), ar_ret.value.keyword_match_score),
                        FMul(Lit(6, 10), ArClampedSemantic)),
                   Lit_100)
        /\ ar_ret.value.keyword_match_score = ArJaccard
        /\ Len(ArSummary) = 1
        /\ ArSummary[1].id = summary_id(band(ar_ret.value.overall_score))
        /\ ArSummary[1].num = Format0f(ar_ret.value.overall_score)

\* "ai db" against "AI" with cosine 0.85: the keyword score is 1/2 and the
\* summary is 'Good potential'.
C25_Witness ==
    /\ ArCalled
    /\ ar_call.resume_text = T_AiDb
    /\ ar_call.job_description_text = T_AI
    /\ ar_call.embedding = Return(Lit_0_85)
    /\ ArFullResult
    /\ ar_ret.value.keyword_match_score = IntTrueDiv(1, 2)
    /\ ar_ret.value.semantic_similarity_score = Lit_0_85
    /\ ArSummary[1].id = "Good potential"

(***************************************************************************)
(* main.analyze_resume_files, resume_parser / jd_parser                    *)
(*                                                                         *)
(* An upload is its file name and its content.  The reader of a format     *)
(* (PyPDF2, python-docx, open) makes a text of the content, or fails, and  *)
(* the extract_text_from_* functions raise ValueError for any failure.     *)
(* The two parser modules define the same extract_text_from_file.          *)
(***************************************************************************)
\* os.path.splitext(name)[1] for a name without a directory part.
splitext_ext(name) ==
    LET dots == { i \in DOMAIN name : name[i] = "." }
    IN  IF dots = {} THEN <<>>
        ELSE LET d == CHOOSE i \in dots : \A j \in dots : j <= i
             IN  IF \E j \in 1..(d - 1) : name[j] # "."
                 THEN SubSeq(name, d, Len(name))
                 ELSE <<>>

\* tempfile.NamedTemporaryFile(delete=False).name, without its directory.
temp_name == <<"t", "m", "p", "x">>

\* The extension extract_text_from_file decides on.
file_extension(file_path, original_filename) ==
    IF original_filename # <<>> THEN Lower(splitext_ext(original_filename))
    ELSE Lower(splitext_ext(file_path))

\* extract_text_from_pdf, extract_text_from_docx, extract_text_from_txt:
\* the text of the content, or ValueError.
extract_text(content) ==
    CASE content = "unreadable" -> Raise("ValueError")
      [] content = "ai db" -> Return(T_AiDb)
      [] content = "too long" -> Return(T_TooLong)

extract_text_from_file(file_path, file) ==
    LET extension == file_extension(file_path, file.filename)
    IN  IF extension = <<".", "p", "d", "f">> THEN extract_text(file.content)
        ELSE IF extension \in { <<".", "d", "o", "c", "x">>, <<".", "d", "o", "c">> }
        THEN extract_text(file.content)
        ELSE IF extension = <<".", "t", "x", "t">> THEN extract_text(file.content)
        ELSE Raise("ValueError")

\* Variant: an HTTPException of the inner call is passed on as it is.
files_error_passing_http(exc) ==
    IF exc.exc = "HTTPException" THEN exc ELSE HTTPException(500)

\* except Exception as e: raise HTTPException(status_code=500, ...)
files_error(exc) == HTTPException(500)

\* What the try block passes on: a result as it is, an exception through
\* the except clause.
files_outcome(outcome) ==
    IF outcome.kind = "raise" THEN files_error(outcome) ELSE outcome

\* The request that is built from the two extracted texts.
files_request(resume_text, jd_text) ==
    [resume_text |-> resume_text.value, job_description_text |-> jd_text.value]

\* storage is what creating, writing and deleting the temporary files does.
analyze_resume_files(resume_file, job_description_file, storage, embedding, missing_keywords, common_keywords) ==
    IF storage.kind = "raise" THEN files_error(storage)
    ELSE IF extract_text_from_file(temp_name, resume_file).kind = "raise"
    THEN files_error(extract_text_from_file(temp_name, resume_file))
    ELSE IF extract_text_from_file(temp_name, job_description_file).kind = "raise"
    THEN files_error(extract_text_from_file(temp_name, job_description_file))
    ELSE files_outcome(analyze_resume(files_request(extract_text_from_file(temp_name, resume_file), extract_text_from_file(temp_name, job_description_file)), embedding, missing_keywords, common_keywords))

\* File names: "cv.PDF", "cv.docx", "cv.doc", "cv.txt", "cv.png", ".txt"
\* and the empty name.
FileNames ==
    { <<"c", "v", ".", "P", "D", "F">>, <<"c", "v", ".", "d", "o", "c", "x">>,
      <<"c", "v", ".", "d", "o", "c">>, <<"c", "v", ".", "t", "x", "t">>,
      <<"c", "v", ".", "p", "n", "g">>, <<".", "t", "x", "t">>, <<>> }

\* A content that cannot be read, the text "ai db", and a text of
\* MAX_INPUT_LENGTH + 1 characters.
FileContents == { "unreadable", "ai db", "too long" }

Uploads == [filename : FileNames, content : FileContents]

StorageOutcomes == { Return("stored"), Raise("OSError") }

FilesEmbeddings == { Raise("Exception"), Return(Lit_0_85) }

\* The orders of the keyword sets for the two uploads, when both are read.
files_feedback_orders(resume_file, job_description_file, storage) ==
    IF \/ storage.kind = "raise"
       \/ extract_text_from_file(temp_name, resume_file).kind = "raise"
       \/ extract_text_from_file(temp_name, job_description_file).kind = "raise"
    THEN { << <<>>, <<>> >> }
    ELSE feedback_orders(files_request(extract_text_from_file(temp_name, resume_file), extract_text_from_file(temp_name, job_description_file)))

InitFiles ==
    /\ sentence_model \in { SentenceTransformer, ModelNone }
    /\ nlp \in { Language, ModelNone }
    /\ af_call \in [fn : {"client"}, resume_file : Uploads]
    /\ af_ret = Pending
    /\ ss_call = Idle /\ ss_ret = Pending
    /\ tp_call = Idle /\ tp_ret = Pending
    /\ ScorerIdle /\ FeedbackIdle /\ ExtractorIdle /\ ApiIdle
    /\ ConcurrentIdle /\ FrontendIdle

AnalyzeResumeFiles ==
    /\ af_call # Idle
    /\ af_call.fn = "client"
    /\ \E job_description_file \in Uploads, storage \in StorageOutcomes, embedding \in FilesEmbeddings :
          \E orders \in files_feedback_orders(af_call.resume_file, job_description_file, storage) :
             /\ af_call' = [fn |-> "analyze_resume_files",
                            resume_file |-> af_call.resume_file,
                            job_description_file |-> job_description_file,
                            storage |-> storage,
                            embedding |-> embedding]
             /\ af_ret' = analyze_resume_files(af_call.resume_file, job_description_file, storage, embedding, orders[1], orders[2])
    /\ UNCHANGED <<sentence_model, ss_call, ss_ret, nlp, tp_call, tp_ret, scorerVars, feedbackVars, extractorVars, apiVars, concurrentVars, frontendVars>>

NextFiles == AnalyzeResumeFiles

SpecFiles == InitFiles /\ [][NextFiles]_vars

AfCalled == af_call # Idle /\ af_call.fn = "analyze_resume_files"

\* The names whose extension is one of .pdf, .docx, .doc, .txt.
SupportedNames ==
    { <<"c", "v", ".", "P", "D", "F">>, <<"c", "v", ".", "d", "o", "c", "x">>,
      <<"c", "v", ".", "d", "o", "c">>, <<"c", "v", ".", "t", "x", "t">> }

AfUnsupported ==
    \/ af_call.resume_file.filename \notin SupportedNames
    \/ af_call.job_description_file.filename \notin SupportedNames

AfExtractionError ==
    \/ af_call.resume_file.content = "unreadable"
    \/ af_call.job_description_file.content = "unreadable"

\* Both texts were extracted and handed to analyze_resume.
AfInnerCall ==
    /\ af_call.storage.kind = "return"
    /\ ~ AfUnsupported
    /\ ~ AfExtractionError

AfInnerTooLong ==
    \/ af_call.resume_file.content = "too long"
    \/ af_call.job_description_file.content = "too long"

\* C28: analyze_resume_files reports every failure as HTTP 500: an
\* unsupported file format, a text-extraction error, and also the 503 or 413
\* raised by the inner analyze_resume call; it never fails with 503 or 413.
C28_FilesFailWith500 ==
    AfCalled =>
        /\ af_ret # Pending
        /\ af_ret.kind = "raise" => af_ret = HTTPException(500)
        /\ (af_call.storage.kind = "return" /\ (AfUnsupported \/ AfExtractionError))
              => af_ret = HTTPException(500)
        /\ (AfInnerCall /\ sentence_model = ModelNone) => af_ret = HTTPException(500)
        /\ (AfInnerCall /\ AfInnerTooLong) => af_ret = HTTPException(500)

\* With the embedding model loaded, "cv.PDF" with the text "ai db" against
\* "cv.txt" with a text of MAX_INPUT_LENGTH + 1 characters: the inner call
\* raised 413 and the endpoint failed with 500.
C28_Witness ==
    /\ AfCalled
    /\ sentence_model = SentenceTransformer
    /\ af_call.storage = Return("stored")
    /\ af_call.resume_file = [filename |-> <<"c", "v", ".", "P", "D", "F">>, content |-> "ai db"]
    /\ af_call.job_description_file = [filename |-> <<"c", "v", ".", "t", "x", "t">>, content |-> "too long"]
    /\ af_ret = HTTPException(500)

(***************************************************************************)
(* frontend/app.py                                                         *)
(*                                                                         *)
(* Streamlit runs the script from top to bottom after every interaction;   *)
(* st.session_state survives the runs.  A run in which a button was        *)
(* clicked executes that button's block, and at most one button is         *)
(* clicked per run.  requests.post is given by its outcome: an exception,  *)
(* or a response with its status code and what response.json() does.      *)
(***************************************************************************)
Dict(items) == [type |-> "dict", items |-> items]

List(elements) == [type |-> "list", elements |-> elements]

Response(status_code, json) == [status_code |-> status_code, json |-> json]

\* An error message: which of the messages of the script it is, and the
\* status code it quotes (0 when it quotes none).
ErrorMessage(id, status_code) == [type |-> "str", id |-> id, status_code |-> status_code]

\* Variant: the click keeps what the earlier click stored.
reset_keeping_previous(state) == state

\* st.session_state.analysis_result = None; st.session_state.error_message = None
reset(state) == [analysis_result |-> NoneValue, error_message |-> NoneValue]

\* The try block around requests.post, common to both buttons.
post_and_store(state, outcome) ==
    IF outcome.kind = "raise"
    THEN [state EXCEPT !.error_message =
             ErrorMessage(CASE outcome.exc = "ConnectionError" -> "Connection Error"
                            [] outcome.exc = "Timeout" -> "Request timed out"
                            [] OTHER -> "An unexpected error occurred", 0)]
    ELSE LET response == outcome.value
         IN  IF response.status_code = 200
             THEN IF response.json.kind = "raise"
                  THEN [state EXCEPT !.error_message = ErrorMessage("An unexpected error occurred", 0)]
                  ELSE [state EXCEPT !.analysis_result = response.json.value]
             ELSE IF response.json.kind = "return" /\ response.json.value.type # "dict"
                  THEN [state EXCEPT !.error_message = ErrorMessage("An unexpected error occurred", 0)]
                  ELSE [state EXCEPT !.error_message = ErrorMessage("Error from backend", response.status_code)]

\* if st.button("Analyze Text Input")
analyze_text_input(state, resume_text, job_description_text, outcome) ==
    LET cleared == reset(state)
    IN  IF resume_text = <<>> \/ job_description_text = <<>>
        THEN [cleared EXCEPT !.error_message = ErrorMessage("Please paste both", 0)]
        ELSE post_and_store(cleared, outcome)

\* if st.button("Analyze Uploaded Files")
analyze_uploaded_files(state, resume_file, job_description_file, outcome) ==
    LET cleared == reset(state)
    IN  IF resume_file = NoneValue \/ job_description_file = NoneValue
        THEN [cleared EXCEPT !.error_message = ErrorMessage("Please upload both", 0)]
        ELSE post_and_store(cleared, outcome)

\* What the text areas and the file uploaders can hold.
AreaTexts == { <<>>, <<"a", "i">> }

UploadedFiles == { NoneValue, Str(<<"c", "v", ".", "t", "x", "t">>) }

StatusCodes == { 413, 422, 500, 503 }

PostOutcomes ==
    { Raise("ConnectionError"), Raise("Timeout"), Raise("Exception"),
      Return(Response(200, Return(Dict("analysis of the texts")))),
      Return(Response(200, Return(Dict("analysis of the files")))),
      Return(Response(200, Raise("JSONDecodeError"))),
      Return(Response(500, Raise("JSONDecodeError"))),
      Return(Response(500, Return(List("detail")))) }
        \cup { Return(Response(s, Return(Dict("detail")))) : s \in StatusCodes }

NoRun == [button |-> "none"]

\* The first run of the script has set both keys of the session state.
InitFrontend ==
    /\ session_state = [analysis_result |-> NoneValue, error_message |-> NoneValue]
    /\ widgets \in [resume_text : AreaTexts, job_description_text : AreaTexts,
                    resume_file : UploadedFiles, job_description_file : UploadedFiles,
                    run : {NoRun}]
    /\ ScorerIdle /\ FeedbackIdle /\ SemanticIdle /\ ExtractorIdle /\ ProcessorIdle
    /\ ApiIdle /\ FilesIdle /\ ConcurrentIdle

\* The user changes a text area or an uploader: a run without a click.
EditWidgets ==
    /\ widgets # Idle
    /\ \E resume_text \in AreaTexts, job_description_text \in AreaTexts, resume_file \in UploadedFiles, job_description_file \in UploadedFiles :
          /\ widgets' = [resume_text |-> resume_text,
                         job_description_text |-> job_description_text,
                         resume_file |-> resume_file,
                         job_description_file |-> job_description_file,
                         run |-> NoRun]
          /\ widgets' # widgets
    /\ UNCHANGED <<session_state, scorerVars, feedbackVars, semanticVars, extractorVars, processorVars, apiVars, filesVars, concurrentVars>>

ClickAnalyzeTextInput ==
    /\ widgets # Idle
    /\ \E outcome \in PostOutcomes :
          /\ session_state' = analyze_text_input(session_state, widgets.resume_text, widgets.job_description_text, outcome)
          /\ widgets' = [widgets EXCEPT !.run = [button |-> "Analyze Text Input", outcome |-> outcome]]
    /\ UNCHANGED <<scorerVars, feedbackVars, semanticVars, extractorVars, processorVars, apiVars, filesVars, concurrentVars>>

ClickAnalyzeUploadedFiles ==
    /\ widgets # Idle
    /\ \E outcome \in PostOutcomes :
          /\ session_state' = analyze_uploaded_files(session_state, widgets.resume_file, widgets.job_description_file, outcome)
          /\ widgets' = [widgets EXCEPT !.run = [button |-> "Analyze Uploaded Files", outcome |-> outcome]]
    /\ UNCHANGED <<scorerVars, feedbackVars, semanticVars, extractorVars, processorVars, apiVars, filesVars, concurrentVars>>

NextFrontend == EditWidgets \/ ClickAnalyzeTextInput \/ ClickAnalyzeUploadedFiles

SpecFrontend == InitFrontend /\ [][NextFrontend]_vars

\* The last run executed the block of a button.
FeClicked == widgets # Idle /\ widgets.run # NoRun

\* The inputs of the clicked button were missing.
FeMissingInput ==
    IF widgets.run.button = "Analyze Text Input"
    THEN widgets.resume_text = <<>> \/ widgets.job_description_text = <<>>
    ELSE widgets.resume_file = NoneValue \/ widgets.job_description_file = NoneValue

\* The request was sent and answered with status 200 and a JSON body.
FeSuccess ==
    /\ ~ FeMissingInput
    /\ widgets.run.outcome.kind = "return"
    /\ widgets.run.outcome.value.status_code = 200
    /\ widgets.run.outcome.value.json.kind = "return"

FeResultSet == session_state.analysis_result # NoneValue

FeErrorSet == session_state.error_message # NoneValue

\* C30: after any sequence of clicks on the two buttons analysis_result and
\* error_message are never both set: a click clears both, then sets
\* analysis_result only on HTTP 200 and error_message on every other outcome
\* (missing input, another status, connection error, timeout, any other
\* exception), so that the result of an earlier click is never shown next
\* to a later error.
C30_ResultXorError ==
    session_state # Idle =>
        /\ ~ (FeResultSet /\ FeErrorSet)
        /\ FeClicked =>
              /\ FeSuccess => (FeResultSet /\ session_state.analysis_result = widgets.run.outcome.value.json.value)
              /\ ~ FeSuccess => (FeErrorSet /\ ~ FeResultSet)

\* A click on 'Analyze Uploaded Files' with both files present, answered
\* with status 500: the error is set and no result is.
C30_Witness ==
    /\ FeClicked
    /\ widgets.run.button = "Analyze Uploaded Files"
    /\ widgets.run.outcome = Return(Response(500, Return(Dict("detail"))))
    /\ ~ FeMissingInput
    /\ session_state.error_message = ErrorMessage("Error from backend", 500)
    /\ session_state.analysis_result = NoneValue

(***************************************************************************)
(* Concurrent analyze_resume calls                                         *)
(*                                                                         *)
(* Several requests are in flight in one process.  Each runs the steps of  *)
(* analyze_resume on its own locals; the steps of different requests       *)
(* interleave in any order, which covers a server that runs a handler to   *)
(* its end as well as one that switches between handlers.  What the        *)
(* process fixes for all its requests is the environment: the encoder of   *)
(* the embedding model, a function of the two texts, and the order in      *)
(* which a set of strings is listed, fixed by the hash seed.               *)
(***************************************************************************)
MaxRequests == 2    \* requests in flight

RequestIds == 1..MaxRequests

\* The texts of the requests: " \n" against "AI", "ai db" against "AI",
\* "AI" against "the dbs, AI".
ConcurrentTexts == { <<T_Blank, T_AI>>, <<T_AiDb, T_AI>>, <<T_AI, T_TheDbsAI>> }

\* What encoding two texts and comparing the embeddings gives.
Encoders ==
    { [p \in ConcurrentTexts |-> IF p[1] = T_AiDb THEN Return(Lit_0_85) ELSE Return(Lit(3, 10))],
      [p \in ConcurrentTexts |-> IF p[1] = T_AiDb THEN Raise("Exception") ELSE Return(Lit(-25, 100))] }

\* list(set) under the hash seed of the process.
set_order(S) ==
    CHOOSE l \in ListsOf(S) :
        \A i, j \in DOMAIN l :
            i < j => IF environment.reversed THEN StrLess(l[j], l[i]) ELSE StrLess(l[i], l[j])

\* Variant: the handler works on a module-level request, the first one.
own_request_shared(reqs, r) == reqs[1]

\* The parameter `request` and the locals of the call r.
own_request(reqs, r) == reqs[r]

received(texts) ==
    [pc |-> "received", resume_text |-> texts[1], job_description_text |-> texts[2],
     resume_keywords |-> <<>>, jd_keywords |-> <<>>,
     semantic_sim_score |-> Pending, response |-> Pending]

\* The checks before the pipeline: model loaded, input lengths.
validate(req) ==
    IF critical_model_missing(sentence_model)
    THEN [req EXCEPT !.pc = "done", !.response = HTTPException(503)]
    ELSE IF input_too_long(req)
    THEN [req EXCEPT !.pc = "done", !.response = HTTPException(413)]
    ELSE [req EXCEPT !.pc = "keywords"]

\* Steps 1 and 2: preprocess_text and extract_keywords_tfidf for both texts.
extract_keywords(req) ==
    LET resume_keywords == text_keywords(req.resume_text)
        jd_keywords == text_keywords(req.job_description_text)
    IN  IF resume_keywords.kind = "raise" \/ jd_keywords.kind = "raise"
        THEN [req EXCEPT !.pc = "done", !.response = HTTPException(500)]
        ELSE [req EXCEPT !.pc = "semantic",
                         !.resume_keywords = resume_keywords.value,
                         !.jd_keywords = jd_keywords.value]

\* Step 3: calculate_semantic_similarity on the original texts.
compare_texts(req) ==
    LET semantic_sim_score == calculate_semantic_similarity(req.resume_text, req.job_description_text, environment.encoder[<<req.resume_text, req.job_description_text>>])
    IN  IF semantic_sim_score.kind = "raise"
        THEN [req EXCEPT !.pc = "done", !.response = HTTPException(500)]
        ELSE [req EXCEPT !.pc = "score", !.semantic_sim_score = semantic_sim_score.value]

\* Steps 4 and 5: the scores, the feedback and the response.
respond(req) ==
    LET overall_score == calculate_overall_score(req.resume_keywords, req.jd_keywords, req.semantic_sim_score, default_keyword_weight, default_semantic_weight)
        keyword_match_score_value == calculate_keyword_match_score(req.resume_keywords, req.jd_keywords)
    IN  IF overall_score.kind = "raise"
        THEN [req EXCEPT !.pc = "done", !.response = HTTPException(500)]
        ELSE [req EXCEPT !.pc = "done", !.response =
                 Return([overall_score |-> overall_score.value,
                         semantic_similarity_score |-> req.semantic_sim_score,
                         keyword_match_score |-> keyword_match_score_value,
                         feedback |-> generate_feedback(set_order(missing_keyword_set(req.resume_keywords, req.jd_keywords)),
                                                        set_order(common_keyword_set(req.resume_keywords, req.jd_keywords)),
                                                        req.semantic_sim_score, overall_score.value,
                                                        default_top_n_missing_keywords),
                         resume_keywords |-> req.resume_keywords,
                         jd_keywords |-> req.jd_keywords])]

\* Both modules have been imported and the requests have arrived.
InitConcurrent ==
    /\ sentence_model \in { SentenceTransformer, ModelNone }
    /\ nlp = Language
    /\ environment \in [encoder : Encoders, reversed : BOOLEAN]
    /\ requests \in [RequestIds -> { received(texts) : texts \in ConcurrentTexts }]
    /\ ss_call = Idle /\ ss_ret = Pending
    /\ tp_call = Idle /\ tp_ret = Pending
    /\ ScorerIdle /\ FeedbackIdle /\ ExtractorIdle /\ ApiIdle /\ FilesIdle /\ FrontendIdle

\* The call r takes a step that leaves it with the locals next.
Advance(r, next) ==
    /\ requests' = [requests EXCEPT ![r] = next]
    /\ UNCHANGED <<environment, sentence_model, ss_call, ss_ret, nlp, tp_call, tp_ret, scorerVars, feedbackVars, extractorVars, apiVars, filesVars, frontendVars>>

Validate ==
    \E r \in DOMAIN requests :
        requests[r].pc = "received" /\ Advance(r, validate(own_request(requests, r)))

ExtractKeywords ==
    \E r \in DOMAIN requests :
        requests[r].pc = "keywords" /\ Advance(r, extract_keywords(own_request(requests, r)))

CompareTexts ==
    \E r \in DOMAIN requests :
        requests[r].pc = "semantic" /\ Advance(r, compare_texts(own_request(requests, r)))

Respond ==
    \E r \in DOMAIN requests :
        requests[r].pc = "score" /\ Advance(r, respond(own_request(requests, r)))

NextConcurrent == Validate \/ ExtractKeywords \/ CompareTexts \/ Respond

SpecConcurrent == InitConcurrent /\ [][NextConcurrent]_vars

\* What analyze_resume returns for the two texts of the call r when it runs
\* alone in this process.
AloneResponse(r) ==
    LET request == [resume_text |-> requests[r].resume_text,
                    job_description_text |-> requests[r].job_description_text]
        resume_keywords == text_keywords(request.resume_text).value
        jd_keywords == text_keywords(request.job_description_text).value
    IN  IF critical_model_missing(sentence_model)
        THEN analyze_resume(request, Raise("Exception"), <<>>, <<>>)
        ELSE analyze_resume(request,
                            environment.encoder[<<request.resume_text, request.job_description_text>>],
                            set_order(missing_keyword_set(resume_keywords, jd_keywords)),
                            set_order(common_keyword_set(resume_keywords, jd_keywords)))

\* Every response given so far is the one of the request's own two texts.
OwnTextsOnly ==
    \A r \in DOMAIN requests :
        requests[r].pc = "done" => requests[r].response = AloneResponse(r)

\* A step changes the locals of one call and nothing that is shared: not the
\* embedding model handle, not the spaCy pipeline, not the environment.
StepIsLocal ==
    /\ sentence_model' = sentence_model
    /\ nlp' = nlp
    /\ environment' = environment
    /\ Cardinality({ r \in DOMAIN requests : requests'[r] # requests[r] }) <= 1
    /\ \A r \in DOMAIN requests :
          /\ requests'[r].resume_text = requests[r].resume_text
          /\ requests'[r].job_description_text = requests[r].job_description_text

\* C24: analysis requests are independent: under any interleaving of
\* concurrent analyze_resume calls each response is a function of that
\* request's own two texts only, no request writes state that another
\* request reads, and the shared embedding model handle is never reassigned
\* after the import of the module.
C24_RequestsIndependent == [](OwnTextsOnly) /\ [][StepIsLocal]_vars

\* Request 1 for "ai db" against "AI" and request 2 for " \n" against "AI"
\* have both been answered, with different results.
C24_Witness ==
    /\ requests # <<>>
    /\ sentence_model = SentenceTransformer
    /\ requests[1].resume_text = T_AiDb
    /\ requests[2].resume_text = T_Blank
    /\ requests[1].pc = "done" /\ requests[2].pc = "done"
    /\ requests[1].response.kind = "return" /\ requests[2].response.kind = "return"
    /\ requests[1].response # requests[2].response

====
